---- MODULE Spec2Model ----
(***************************************************************************)
(* Model of the order-bookkeeping rule engine (src/rule_engine.py):        *)
(* RuleEngine.find_matching_rule, RuleEngine.calculate_order_breakdown and *)
(* RuleEngine.process_orders.                                              *)
(*                                                                         *)
(* Numbers.  Python floats are modelled as exact rationals <<n, d>> with   *)
(* d > 0 in lowest terms; binary floating-point representation error is    *)
(* not modelled.  round(x, 2) is round-half-even on the exact value.       *)
(*                                                                         *)
(* Text.  A Python str is a sequence of one-character strings.             *)
(*                                                                         *)
(* Dynamic values.  A value read with dict.get is a record                 *)
(*   [t |-> "none" | "str" | "num", s |-> text, v |-> rational]            *)
(* where "none" stands for an absent key.                                  *)
(***************************************************************************)
EXTENDS Integers, Sequences, FiniteSets, TLC

VARIABLES
    rules,              \* self.rules: the rule list given to RuleEngine
    orders,             \* process_orders argument: the batch of orders
    base_arg,           \* the base_amount argument ("subtotal" or "total")
    breakdowns,         \* process_orders local: breakdowns produced so far
    pc,                 \* position inside calculate_order_breakdown
    base,               \* local base (after cost deduction)
    total_cost,         \* local total_cost
    li,                 \* number of line items examined by the match loop
    rule,               \* local rule: result of the last find_matching_rule
                        \* call (index in rules, 0 for None)
    rule_applied,       \* index in rules of the rule applied, 0 for None
    matched_rules,      \* local matched_rules (list of descriptions)
    components,         \* local components: filtered and sorted
    ci,                 \* index of the next component of the allocation loop
    remaining_amount,   \* local remaining_amount
    totals,             \* total_investor, total_consigner, total_vendor,
                        \* total_state_taxes, total_federal_taxes, total_revenue
    component_details,  \* local component_details
    ti,                 \* index of the next tax line of the tax loop
    user_rules,         \* the UserRule rows of the current user (src/models.py)
    response,           \* the reply to the request served last or being served
    assigned_ids,       \* history: the rule_id values add_rule has assigned
    requests,           \* the add_rule requests in flight, one per client
    fetch               \* the locals of a call of fetch_orders
                        \* (src/shopify_client.py)

vars == <<rules, orders, base_arg, breakdowns, pc, base, total_cost, li,
          rule, rule_applied, matched_rules, components, ci, remaining_amount,
          totals, component_details, ti, user_rules, response,
          assigned_ids, requests, fetch>>

\* the state of the web application outside the rule engine
web == <<user_rules, response, assigned_ids, requests, fetch>>

----------------------------------------------------------------------------
(* Exact rational arithmetic standing for Python float arithmetic.         *)

Abs(x) == IF x < 0 THEN -x ELSE x

RECURSIVE Gcd(_, _)
Gcd(a, b) == IF b = 0 THEN a ELSE Gcd(b, a % b)

Norm(n, d) ==
    LET g == Gcd(Abs(n), Abs(d))
        s == IF d < 0 THEN -1 ELSE 1
    IN  <<(s * n) \div g, (s * d) \div g>>

Rat(n) == <<n, 1>>
Zero == Rat(0)
\* sums and comparisons go through the least common denominator, products
\* cancel crosswise first, so that intermediate integers stay small
RAdd(a, b) ==
    LET g == Gcd(a[2], b[2])
    IN  Norm(a[1] * (b[2] \div g) + b[1] * (a[2] \div g), (a[2] \div g) * b[2])
RNeg(a)    == <<-a[1], a[2]>>
RSub(a, b) == RAdd(a, RNeg(b))
RMul(a, b) ==
    LET g1 == Gcd(Abs(a[1]), b[2])
        g2 == Gcd(Abs(b[1]), a[2])
    IN  Norm((a[1] \div g1) * (b[1] \div g2), (a[2] \div g2) * (b[2] \div g1))
RDiv(a, b) == RMul(a, Norm(b[2], b[1]))
RLt(a, b)  ==
    LET g == Gcd(a[2], b[2])
    IN  a[1] * (b[2] \div g) < b[1] * (a[2] \div g)
RLe(a, b)  == ~RLt(b, a)
RMax(a, b) == IF RLt(a, b) THEN b ELSE a
Hundred == Rat(100)

\* round(x, 2): nearest multiple of 1/100, ties to the even one.
Round2(x) ==
    LET g  == Gcd(100, x[2])
        c  == x[1] * (100 \div g)
        d  == x[2] \div g
        q  == c \div d
        r  == c % d
        up == \/ 2 * r > d
              \/ 2 * r = d /\ q % 2 = 1
    IN  Norm(IF up THEN q + 1 ELSE q, 100)

----------------------------------------------------------------------------
(* Text: str.lower, " ".join, the substring test and float(str).           *)

\* needle in hay
Contains(hay, needle) ==
    \E k \in 0..(Len(hay) - Len(needle)) :
        \A i \in 1..Len(needle) : hay[k + i] = needle[i]

RECURSIVE Join(_)
\* " ".join(texts)
Join(texts) ==
    IF Len(texts) = 0 THEN <<>>
    ELSE IF Len(texts) = 1 THEN texts[1]
    ELSE texts[1] \o <<" ">> \o Join(Tail(texts))

DigitVal(c) ==
    CASE c = "0" -> 0 [] c = "1" -> 1 [] c = "2" -> 2 [] c = "3" -> 3
      [] c = "4" -> 4 [] c = "5" -> 5 [] c = "6" -> 6 [] c = "7" -> 7
      [] c = "8" -> 8 [] c = "9" -> 9

RECURSIVE DigitsVal(_)
DigitsVal(s) ==
    IF Len(s) = 0 THEN 0
    ELSE 10 * DigitsVal(SubSeq(s, 1, Len(s) - 1)) + DigitVal(s[Len(s)])

RECURSIVE Pow10(_)
Pow10(k) == IF k = 0 THEN 1 ELSE 10 * Pow10(k - 1)

\* float(s) for a decimal literal [-]digits[.digits]
ParseFloat(s) ==
    LET neg  == Len(s) > 0 /\ s[1] = "-"
        body == IF neg THEN Tail(s) ELSE s
        dots == {i \in 1..Len(body) : body[i] = "."}
        dot  == IF dots = {} THEN Len(body) + 1 ELSE CHOOSE i \in dots : TRUE
        ip   == SubSeq(body, 1, dot - 1)
        fp   == SubSeq(body, dot + 1, Len(body))
        mag  == Norm(DigitsVal(ip) * Pow10(Len(fp)) + DigitsVal(fp), Pow10(Len(fp)))
    IN  IF neg THEN RNeg(mag) ELSE mag

----------------------------------------------------------------------------
(* Dynamic values.                                                         *)

None   == [t |-> "none", s |-> <<>>, v |-> Zero]
Str(s) == [t |-> "str",  s |-> s,    v |-> Zero]
Num(n) == [t |-> "num",  s |-> <<>>, v |-> Rat(n)]

\* d.get(key, default) where x is the stored value or None when absent
Get(x, default) == IF x.t = "none" THEN default ELSE x

\* Python truthiness of a str or a number
Truthy(x) ==
    CASE x.t = "none" -> FALSE
      [] x.t = "str"  -> Len(x.s) > 0
      [] x.t = "num"  -> x.v # Zero

\* float(x)
ToFloat(x) == IF x.t = "str" THEN ParseFloat(x.s) ELSE x.v

IsDigit(c) == c \in {"0","1","2","3","4","5","6","7","8","9"}

\* float(x) returns: x is a number or a decimal literal [-]digits[.digits]
\* with a digit in it (a str that is not one raises ValueError)
IsFloat(x) ==
    \/ x.t = "num"
    \/ /\ x.t = "str"
       /\ LET neg  == Len(x.s) > 0 /\ x.s[1] = "-"
              body == IF neg THEN Tail(x.s) ELSE x.s
          IN  /\ \E i \in 1..Len(body) : IsDigit(body[i])
              /\ \A i \in 1..Len(body) : IsDigit(body[i]) \/ body[i] = "."
              /\ Cardinality({i \in 1..Len(body) : body[i] = "."}) <= 1

----------------------------------------------------------------------------
(* str.strip, str.replace("_", " "), str.title and the f-string formats.   *)

LowerLetters == <<"a","b","c","d","e","f","g","h","i","j","k","l","m",
                  "n","o","p","q","r","s","t","u","v","w","x","y","z">>
UpperLetters == <<"A","B","C","D","E","F","G","H","I","J","K","L","M",
                  "N","O","P","Q","R","S","T","U","V","W","X","Y","Z">>

IsLower(c) == \E i \in 1..Len(LowerLetters) : LowerLetters[i] = c
IsUpper(c) == \E i \in 1..Len(UpperLetters) : UpperLetters[i] = c
IsLetter(c) == IsLower(c) \/ IsUpper(c)
ToUpper(c) ==
    IF IsLower(c)
    THEN UpperLetters[CHOOSE i \in 1..Len(LowerLetters) : LowerLetters[i] = c]
    ELSE c
ToLower(c) ==
    IF IsUpper(c)
    THEN LowerLetters[CHOOSE i \in 1..Len(UpperLetters) : UpperLetters[i] = c]
    ELSE c

\* s.lower()
Lower(s) == [i \in 1..Len(s) |-> ToLower(s[i])]

\* s.replace("_", " ")
ReplaceUnderscore(s) == [i \in 1..Len(s) |-> IF s[i] = "_" THEN " " ELSE s[i]]

\* s.title(): a letter that follows a non-letter is upper-cased, others lowered
Title(s) ==
    [i \in 1..Len(s) |->
        IF i = 1 \/ ~IsLetter(s[i - 1]) THEN ToUpper(s[i]) ELSE ToLower(s[i])]

RECURSIVE Strip(_)
\* s.strip()
Strip(s) ==
    IF Len(s) = 0 THEN s
    ELSE IF s[1] = " " THEN Strip(Tail(s))
    ELSE IF s[Len(s)] = " " THEN Strip(SubSeq(s, 1, Len(s) - 1))
    ELSE s

DigitChar(d) == <<"0","1","2","3","4","5","6","7","8","9">>[d + 1]

RECURSIVE NatText(_)
NatText(n) == IF n < 10 THEN <<DigitChar(n)>>
              ELSE NatText(n \div 10) \o <<DigitChar(n % 10)>>

\* f"{x:.2f}"
Format2f(x) ==
    LET r     == Round2(x)
        cents == (Abs(r[1]) * 100) \div r[2]
        sign  == IF r[1] < 0 THEN <<"-">> ELSE <<>>
    IN  sign \o NatText(cents \div 100) \o <<".">>
             \o <<DigitChar((cents % 100) \div 10), DigitChar(cents % 10)>>

----------------------------------------------------------------------------
(* RuleEngine.find_matching_rule                                           *)

RECURSIVE NonEmpty(_)
\* the entries of a list of texts that are truthy, lower-cased
NonEmpty(texts) ==
    IF Len(texts) = 0 THEN <<>>
    ELSE (IF Len(Head(texts)) > 0 THEN <<Lower(Head(texts))>> ELSE <<>>)
         \o NonEmpty(Tail(texts))

\* searchable_texts of a line item
SearchableTexts(line_item) ==
    LET title == IF Len(line_item.name) > 0 THEN line_item.name
                 ELSE line_item.title
    IN  NonEmpty(<<title, line_item.vendor, line_item.product_type>>)
        \o NonEmpty(line_item.tags)
        \o NonEmpty(line_item.collections)

CombinedText(line_item) == Join(SearchableTexts(line_item))

\* the keyword compared as written, not lower-cased
RuleMatchesCaseSensitive(rl, combined_text) ==
    \E k \in 1..Len(rl.keywords) :
        Contains(combined_text, rl.keywords[k])

\* some keyword of the rule, lower-cased, occurs in the combined text
RuleMatches(rl, combined_text) ==
    \E k \in 1..Len(rl.keywords) :
        Contains(combined_text, Lower(rl.keywords[k]))

\* the last rule with a hit instead of the first
FindMatchingRuleLast(rs, line_item) ==
    LET combined_text == CombinedText(line_item)
        hits == {r \in 1..Len(rs) : RuleMatches(rs[r], combined_text)}
    IN  IF hits = {} THEN 0
        ELSE CHOOSE r \in hits : \A q \in hits : r >= q

\* index in rs of the rule returned, 0 for None
FindMatchingRule(rs, line_item) ==
    LET combined_text == CombinedText(line_item)
        hits == {r \in 1..Len(rs) : RuleMatches(rs[r], combined_text)}
    IN  IF hits = {} THEN 0
        ELSE CHOOSE r \in hits : \A q \in hits : r <= q

----------------------------------------------------------------------------
(* RuleEngine.calculate_order_breakdown, one action per straight-line      *)
(* section or loop iteration, called by process_orders for each order.     *)
(* Only the fields of an order and of a breakdown that take part in the    *)
(* calculation are kept (identification and display fields are dropped).   *)

\* the order of the current process_orders iteration
CurOrder == orders[Len(breakdowns) + 1]

ZeroTotals == [investor |-> Zero, consigner |-> Zero, vendor |-> Zero,
               state_taxes |-> Zero, federal_taxes |-> Zero, revenue |-> Zero]

StateTaxesT   == <<"s","t","a","t","e","_","t","a","x","e","s">>
FederalTaxesT == <<"f","e","d","e","r","a","l","_","t","a","x","e","s">>
TaxTypes == {StateTaxesT, FederalTaxesT}
InvestorT  == <<"i","n","v","e","s","t","o","r">>
ConsignerT == <<"c","o","n","s","i","g","n","e","r">>
VendorT    == <<"v","e","n","d","o","r">>
RevenueT   == <<"r","e","v","e","n","u","e">>

\* x.get("order", 999)
SortKey(c) == Get(c.order, Num(999)).v

RECURSIVE InsertByKey(_, _)
\* c placed after every element whose key is <= its own
InsertByKey(sorted, c) ==
    IF Len(sorted) = 0 THEN <<c>>
    ELSE IF RLe(SortKey(Head(sorted)), SortKey(c))
         THEN <<Head(sorted)>> \o InsertByKey(Tail(sorted), c)
         ELSE <<c>> \o sorted

RECURSIVE SortedByOrder(_)
\* sorted(cs, key=lambda x: x.get("order", 999)): ascending and stable
SortedByOrder(cs) ==
    IF Len(cs) = 0 THEN <<>>
    ELSE InsertByKey(SortedByOrder(SubSeq(cs, 1, Len(cs) - 1)), cs[Len(cs)])

\* component.get("type", ""): c.absent holds the keys the component lacks
TypeOf(c) == IF "type" \in c.absent THEN <<>> ELSE c.type

\* component.get("calc_type", "percentage")
CalcTypeOf(c) == IF "calc_type" \in c.absent THEN "percentage" ELSE c.calc_type

\* [c for c in all_components if c.get("type", "") not in tax_types]
NonTax(cs) == SelectSeq(cs, LAMBDA c : TypeOf(c) \notin TaxTypes)

\* the base without the floor at 0
BaseOfUnclamped(order, arg) ==
    LET b == IF arg = "subtotal"
             THEN ToFloat(Get(order.subtotal_price, Num(0)))
             ELSE ToFloat(Get(order.total_price, Num(0)))
        cost == ToFloat(Get(order.total_cost, Num(0)))
    IN  RSub(b, cost)

\* lines 109-117: base = max(0, float(B) - float(total_cost))
BaseOf(order, arg) ==
    LET b == IF arg = "subtotal"
             THEN ToFloat(Get(order.subtotal_price, Num(0)))
             ELSE ToFloat(Get(order.total_price, Num(0)))
        cost == ToFloat(Get(order.total_cost, Num(0)))
    IN  RMax(Zero, RSub(b, cost))

\* the totals and the details kept from the call before
StartKeepTotals ==
    /\ pc = "call"
    /\ base' = BaseOf(CurOrder, base_arg)
    /\ total_cost' = ToFloat(Get(CurOrder.total_cost, Num(0)))
    /\ matched_rules' = <<>>
    /\ rule_applied' = 0
    /\ rule' = 0
    /\ li' = 0
    /\ remaining_amount' = BaseOf(CurOrder, base_arg)
    /\ components' = <<>>
    /\ ci' = 0
    /\ ti' = 0
    /\ pc' = IF Len(CurOrder.line_items) = 0 THEN "branch" ELSE "match"
    /\ UNCHANGED <<web, rules, orders, base_arg, breakdowns, totals,
                   component_details>>

\* lines 109-139 and 148: the base and the initial values of the locals
Start ==
    /\ pc = "call"
    /\ base' = BaseOf(CurOrder, base_arg)
    /\ total_cost' = ToFloat(Get(CurOrder.total_cost, Num(0)))
    /\ matched_rules' = <<>>
    /\ totals' = ZeroTotals
    /\ component_details' = <<>>
    /\ rule_applied' = 0
    /\ rule' = 0
    /\ li' = 0
    /\ remaining_amount' = BaseOf(CurOrder, base_arg)
    /\ components' = <<>>
    /\ ci' = 0
    /\ ti' = 0
    /\ pc' = IF Len(CurOrder.line_items) = 0 THEN "branch" ELSE "match"
    /\ UNCHANGED <<web, rules, orders, base_arg, breakdowns>>

\* rule.get("description", "Unknown rule")
DescriptionOf(r) == IF r.description.has THEN r.description.s ELSE "Unknown rule"

\* the loop without its guard and break: a later line item replaces the rule
MatchLineItemLastWins ==
    /\ pc = "match"
    /\ LET found == FindMatchingRule(rules, CurOrder.line_items[li + 1])
       IN  /\ rule' = found
           /\ li' = li + 1
           /\ IF found # 0
              THEN /\ rule_applied' = found
                   /\ matched_rules' = <<DescriptionOf(rules[found])>>
              ELSE UNCHANGED <<rule_applied, matched_rules>>
           /\ pc' = IF li + 1 < Len(CurOrder.line_items) THEN "match" ELSE "branch"
    /\ UNCHANGED <<web, rules, orders, base_arg, breakdowns, base, total_cost,
                   components, ci, remaining_amount, totals,
                   component_details, ti>>

\* lines 140-145: one iteration of the loop over the line items
MatchLineItem ==
    /\ pc = "match"
    /\ LET found == FindMatchingRule(rules, CurOrder.line_items[li + 1])
       IN  /\ rule' = found
           /\ li' = li + 1
           /\ IF found # 0 /\ rule_applied = 0
              THEN /\ rule_applied' = found
                   /\ matched_rules' = Append(matched_rules, DescriptionOf(rules[found]))
                   /\ pc' = "branch"
              ELSE /\ UNCHANGED <<rule_applied, matched_rules>>
                   /\ pc' = IF li + 1 < Len(CurOrder.line_items)
                            THEN "match" ELSE "branch"
    /\ UNCHANGED <<web, rules, orders, base_arg, breakdowns, base, total_cost,
                   components, ci, remaining_amount, totals,
                   component_details, ti>>

\* lines 150-160: the rule's components, tax types filtered out, sorted
PrepareComponents ==
    /\ pc = "branch"
    /\ rule_applied # 0
    /\ components' = SortedByOrder(NonTax(rules[rule_applied].components))
    /\ component_details' = <<>>
    /\ ci' = 1
    /\ pc' = "alloc"
    /\ UNCHANGED <<web, rules, orders, base_arg, breakdowns, base, total_cost, li,
                   rule, rule_applied, matched_rules, remaining_amount,
                   totals, ti>>

\* the else branch left out: the revenue keeps its initial value
NoMatchUnset ==
    /\ pc = "branch"
    /\ rule_applied = 0
    /\ pc' = "emit"
    /\ UNCHANGED <<web, rules, orders, base_arg, breakdowns, base, total_cost, li,
                   rule, rule_applied, matched_rules, components, ci,
                   remaining_amount, totals, component_details, ti>>

\* lines 260-262: no rule applies, revenue equals the base
NoMatch ==
    /\ pc = "branch"
    /\ rule_applied = 0
    /\ totals' = [totals EXCEPT !.revenue = base]
    /\ pc' = "emit"
    /\ UNCHANGED <<web, rules, orders, base_arg, breakdowns, base, total_cost, li,
                   rule, rule_applied, matched_rules, components, ci,
                   remaining_amount, component_details, ti>>

\* the deduction left out
DeductNothing(remaining, amount) == remaining

\* lines 174, 177 and 227: remaining_amount -= amount
Deduct(remaining, amount) == RSub(remaining, amount)

\* a percentage taken of the original base instead of the remaining amount
ComponentAmountOfBase(component, remaining) ==
    LET value == ToFloat(Get(component.value, Num(0)))
    IN  IF CalcTypeOf(component) = "flat" THEN value
        ELSE RMul(base, RDiv(value, Hundred))

\* every component treated as a flat one
ComponentAmountAsFlat(component, remaining) ==
    ToFloat(Get(component.value, Num(0)))

\* lines 172-177: the amount a component takes from the remaining amount
ComponentAmount(component, remaining) ==
    LET value == ToFloat(Get(component.value, Num(0)))
    IN  IF CalcTypeOf(component) = "flat" THEN value
        ELSE RMul(remaining, RDiv(value, Hundred))

\* lines 180-182
DisplayName(comp_type, comp_label) ==
    LET display_name == Title(ReplaceUnderscore(comp_type))
    IN  IF Len(comp_label) > 0
        THEN display_name \o <<" ", "-", " ">> \o comp_label
        ELSE display_name

\* lines 190-195
Credit(t, comp_type, amount) ==
    IF comp_type = InvestorT THEN [t EXCEPT !.investor = RAdd(@, amount)]
    ELSE IF comp_type = ConsignerT THEN [t EXCEPT !.consigner = RAdd(@, amount)]
    ELSE IF comp_type = VendorT THEN [t EXCEPT !.vendor = RAdd(@, amount)]
    ELSE t

\* lines 163-195: one iteration of the loop over the components
ApplyComponent ==
    /\ pc = "alloc"
    /\ ci <= Len(components)
    /\ LET component  == components[ci]
           comp_type  == TypeOf(component)
           comp_label == Strip(component.label)
           amount     == ComponentAmount(component, remaining_amount)
       IN  IF comp_type = RevenueT
           THEN /\ ci' = ci + 1
                /\ UNCHANGED <<pc, remaining_amount, component_details, totals>>
           ELSE IF ~IsFloat(Get(component.value, Num(0)))
           THEN \* float(...) raises ValueError, which nothing in the engine catches
                /\ pc' = "raised"
                /\ UNCHANGED <<ci, remaining_amount, component_details, totals>>
           ELSE /\ remaining_amount' = Deduct(remaining_amount, amount)
                /\ component_details' = Append(component_details,
                       [type |-> comp_type, label |-> comp_label,
                        display_name |-> DisplayName(comp_type, comp_label),
                        amount |-> amount])
                /\ totals' = Credit(totals, comp_type, amount)
                /\ ci' = ci + 1
                /\ UNCHANGED pc
    /\ UNCHANGED <<web, rules, orders, base_arg, breakdowns, base, total_cost,
                   li, rule, rule_applied, matched_rules, components, ti>>

\* order.get("tax_lines", []) or []
TaxLinesOf(order) == order.tax_lines

\* the tax pass entered whenever the order has tax lines
TaxGateUnguarded ==
    /\ pc = "alloc"
    /\ ci > Len(components)
    /\ pc' = IF Len(TaxLinesOf(CurOrder)) > 0 THEN "tax" ELSE "residual"
    /\ ti' = 0
    /\ UNCHANGED <<web, rules, orders, base_arg, breakdowns, base, total_cost, li,
                   rule, rule_applied, matched_rules, components, ci,
                   remaining_amount, totals, component_details>>

\* lines 199-201: the tax pass runs if there are tax lines and something remains
TaxGate ==
    /\ pc = "alloc"
    /\ ci > Len(components)
    /\ pc' = IF Len(TaxLinesOf(CurOrder)) > 0 /\ RLt(Zero, remaining_amount)
             THEN "tax" ELSE "residual"
    /\ ti' = 0
    /\ UNCHANGED <<web, rules, orders, base_arg, breakdowns, base, total_cost, li,
                   rule, rule_applied, matched_rules, components, ci,
                   remaining_amount, totals, component_details>>

RECURSIVE SumAmounts(_)
\* sum of the amounts of a list of component details
SumAmounts(details) ==
    IF Len(details) = 0 THEN Zero
    ELSE RAdd(Head(details).amount, SumAmounts(Tail(details)))

\* every tax line taxed on what remained before the tax pass
TaxAmountOnPreTax(order, tax_line, remaining) ==
    LET pretax == RSub(base, SumAmounts(SelectSeq(component_details,
                        LAMBDA d : d.type \notin TaxTypes)))
    IN  IF Truthy(tax_line.rate_percentage)
        THEN [skip |-> FALSE,
              amount |-> RMul(pretax, RDiv(ToFloat(tax_line.rate_percentage), Hundred))]
        ELSE [skip |-> TRUE, amount |-> Zero]

\* the rate of a tax line preferred to its rate_percentage
TaxAmountRateFirst(order, tax_line, remaining) ==
    LET tax_rate_percentage == tax_line.rate_percentage
        tax_rate == Get(tax_line.rate, Num(0))
    IN  IF Truthy(tax_rate)
        THEN [skip |-> FALSE, amount |-> RMul(remaining, ToFloat(tax_rate))]
        ELSE IF Truthy(tax_rate_percentage)
        THEN [skip |-> FALSE,
              amount |-> RMul(remaining, RDiv(ToFloat(tax_rate_percentage), Hundred))]
        ELSE [skip |-> TRUE, amount |-> Zero]

\* lines 205-225: the amount of a tax line, or no amount (the line is skipped)
TaxAmount(order, tax_line, remaining) ==
    LET tax_rate_percentage == tax_line.rate_percentage
        tax_rate == Get(tax_line.rate, Num(0))
    IN  IF Truthy(tax_rate_percentage)
        THEN [skip |-> FALSE,
              amount |-> RMul(remaining, RDiv(ToFloat(tax_rate_percentage), Hundred))]
        ELSE IF Truthy(tax_rate)
        THEN [skip |-> FALSE, amount |-> RMul(remaining, ToFloat(tax_rate))]
        ELSE LET tax_line_amount == ToFloat(Get(tax_line.amount, Str(<<"0">>)))
                 order_total == ToFloat(Get(order.total_price, Num(0)))
             IN  IF RLt(Zero, order_total)
                 THEN [skip |-> FALSE,
                       amount |-> RMul(remaining, RDiv(tax_line_amount, order_total))]
                 ELSE [skip |-> TRUE, amount |-> Zero]

StateTaxesName   == <<"S","t","a","t","e"," ","T","a","x","e","s">>
FederalTaxesName == <<"F","e","d","e","r","a","l"," ","T","a","x","e","s">>
\* f"Additional Tax ({tax_line.get('title', 'Tax')})"
AdditionalTaxName(tax_line) ==
    <<"A","d","d","i","t","i","o","n","a","l"," ","T","a","x"," ","(">>
    \o tax_line.title \o <<")">>

\* every tax line after the first counted as federal
ApplyTaxLineTwoBuckets ==
    /\ pc = "tax"
    /\ LET i        == ti
           tax_line == TaxLinesOf(CurOrder)[ti + 1]
           tax      == TaxAmount(CurOrder, tax_line, remaining_amount)
           detail(type, name) ==
               [type |-> type, label |-> <<>>, display_name |-> name,
                amount |-> tax.amount]
       IN  IF tax.skip
           THEN UNCHANGED <<remaining_amount, totals, component_details>>
           ELSE /\ remaining_amount' = Deduct(remaining_amount, tax.amount)
                /\ IF i = 0
                   THEN /\ totals' = [totals EXCEPT !.state_taxes = tax.amount]
                        /\ component_details' = Append(component_details,
                               detail(StateTaxesT, StateTaxesName))
                   ELSE IF i >= 1
                   THEN /\ totals' = [totals EXCEPT !.federal_taxes = tax.amount]
                        /\ component_details' = Append(component_details,
                               detail(FederalTaxesT, FederalTaxesName))
                   ELSE /\ totals' = [totals EXCEPT
                               !.state_taxes = RAdd(@, tax.amount)]
                        /\ component_details' = Append(component_details,
                               detail(StateTaxesT, AdditionalTaxName(tax_line)))
    /\ ti' = ti + 1
    /\ pc' = IF ti + 1 < Len(TaxLinesOf(CurOrder)) THEN "tax" ELSE "residual"
    /\ UNCHANGED <<web, rules, orders, base_arg, breakdowns, base, total_cost, li,
                   rule, rule_applied, matched_rules, components, ci>>

\* lines 204-256: one iteration of the loop over the tax lines
ApplyTaxLine ==
    /\ pc = "tax"
    /\ LET i        == ti
           tax_line == TaxLinesOf(CurOrder)[ti + 1]
           tax      == TaxAmount(CurOrder, tax_line, remaining_amount)
           detail(type, name) ==
               [type |-> type, label |-> <<>>, display_name |-> name,
                amount |-> tax.amount]
       IN  IF tax.skip
           THEN UNCHANGED <<remaining_amount, totals, component_details>>
           ELSE /\ remaining_amount' = Deduct(remaining_amount, tax.amount)
                /\ IF i = 0
                   THEN /\ totals' = [totals EXCEPT !.state_taxes = tax.amount]
                        /\ component_details' = Append(component_details,
                               detail(StateTaxesT, StateTaxesName))
                   ELSE IF i = 1
                   THEN /\ totals' = [totals EXCEPT !.federal_taxes = tax.amount]
                        /\ component_details' = Append(component_details,
                               detail(FederalTaxesT, FederalTaxesName))
                   ELSE /\ totals' = [totals EXCEPT
                               !.state_taxes = RAdd(@, tax.amount)]
                        /\ component_details' = Append(component_details,
                               detail(StateTaxesT, AdditionalTaxName(tax_line)))
    /\ ti' = ti + 1
    /\ pc' = IF ti + 1 < Len(TaxLinesOf(CurOrder)) THEN "tax" ELSE "residual"
    /\ UNCHANGED <<web, rules, orders, base_arg, breakdowns, base, total_cost, li,
                   rule, rule_applied, matched_rules, components, ci>>

\* the revenue without the floor at 0
ResidualUnclamped ==
    /\ pc = "residual"
    /\ totals' = [totals EXCEPT !.revenue = remaining_amount]
    /\ pc' = "emit"
    /\ UNCHANGED <<web, rules, orders, base_arg, breakdowns, base, total_cost, li,
                   rule, rule_applied, matched_rules, components, ci,
                   remaining_amount, component_details, ti>>

\* lines 258-259: total_revenue = max(0, remaining_amount)
Residual ==
    /\ pc = "residual"
    /\ totals' = [totals EXCEPT !.revenue = RMax(Zero, remaining_amount)]
    /\ pc' = "emit"
    /\ UNCHANGED <<web, rules, orders, base_arg, breakdowns, base, total_cost, li,
                   rule, rule_applied, matched_rules, components, ci,
                   remaining_amount, component_details, ti>>

\* line 301: f"{comp_detail['display_name']}: ${comp_detail['amount']:.2f}"
BreakdownLine(comp_detail) ==
    comp_detail.display_name \o <<":", " ", "$">> \o Format2f(comp_detail.amount)

\* the lines in reverse order
ComponentBreakdownReversed(applied, details) ==
    IF applied # 0 /\ Len(details) > 0
    THEN [k \in 1..Len(details) |-> BreakdownLine(details[Len(details) + 1 - k])]
    ELSE <<>>

\* lines 298-301
ComponentBreakdown(applied, details) ==
    IF applied # 0 /\ Len(details) > 0
    THEN [k \in 1..Len(details) |-> BreakdownLine(details[k])]
    ELSE <<>>

RECURSIVE JoinComma(_)
\* ", ".join(names)
JoinComma(names) ==
    IF Len(names) = 1 THEN names[1]
    ELSE names[1] \o ", " \o JoinComma(Tail(names))

\* lines 315-338: the breakdown returned
Breakdown(order) ==
    [order_total   |-> ToFloat(Get(order.total_price, Num(0))),
     total_cost    |-> Round2(total_cost),
     base_amount   |-> base,
     revenue       |-> Round2(totals.revenue),
     investor      |-> Round2(totals.investor),
     state_taxes   |-> Round2(totals.state_taxes),
     federal_taxes |-> Round2(totals.federal_taxes),
     consigner     |-> Round2(totals.consigner),
     vendor        |-> Round2(totals.vendor),
     component_breakdown |-> ComponentBreakdown(rule_applied, component_details),
     tax_lines     |-> TaxLinesOf(order),
     matched_rules |-> IF Len(matched_rules) > 0 THEN JoinComma(matched_rules)
                       ELSE "No match"]

\* the breakdown put in front of the list instead of at its end
EmitInFront ==
    /\ pc = "emit"
    /\ breakdowns' = <<Breakdown(CurOrder)>> \o breakdowns
    /\ pc' = IF Len(breakdowns) + 1 < Len(orders) THEN "call" ELSE "return"
    /\ UNCHANGED <<web, rules, orders, base_arg, base, total_cost, li, rule,
                   rule_applied, matched_rules, components, ci,
                   remaining_amount, totals, component_details, ti>>

\* lines 265-338 and process_orders lines 352-355: the breakdown is returned
\* and appended, and the loop of process_orders goes on
Emit ==
    /\ pc = "emit"
    /\ breakdowns' = Append(breakdowns, Breakdown(CurOrder))
    /\ pc' = IF Len(breakdowns) + 1 < Len(orders) THEN "call" ELSE "return"
    /\ UNCHANGED <<web, rules, orders, base_arg, base, total_cost, li, rule,
                   rule_applied, matched_rules, components, ci,
                   remaining_amount, totals, component_details, ti>>

Next ==
    \/ Start
    \/ MatchLineItem
    \/ PrepareComponents
    \/ NoMatch
    \/ ApplyComponent
    \/ TaxGate
    \/ ApplyTaxLine
    \/ Residual
    \/ Emit

----------------------------------------------------------------------------
(* Inputs.                                                                 *)

MaxComps     == 2   \* components per rule
MaxTaxLines  == 2   \* tax lines per order
MaxRules     == 2   \* rules in the rule list
MaxLineItems == 2   \* line items per order

\* sequences over S of length at most n
SeqUpTo(S, n) == UNION {[1..k -> S] : k \in 0..n}

Desc(s) == [has |-> TRUE, s |-> s]
NoDesc  == [has |-> FALSE, s |-> ""]

Item(name, title, vendor, product_type, tags, collections) ==
    [name |-> name, title |-> title, vendor |-> vendor,
     product_type |-> product_type, tags |-> tags, collections |-> collections]

Comp(type, calc_type, value, ord) ==
    [type |-> type, label |-> <<>>, calc_type |-> calc_type,
     value |-> value, order |-> ord, absent |-> {}]

TaxLine(title, amount, rate, rate_percentage) ==
    [title |-> title, amount |-> amount, rate |-> rate,
     rate_percentage |-> rate_percentage]

\* the locals before the first call
InitLocals ==
    /\ breakdowns = <<>>
    /\ pc = IF Len(orders) > 0 THEN "call" ELSE "return"
    /\ base = Zero
    /\ total_cost = Zero
    /\ li = 0
    /\ rule = 0
    /\ rule_applied = 0
    /\ matched_rules = <<>>
    /\ components = <<>>
    /\ ci = 0
    /\ remaining_amount = Zero
    /\ totals = ZeroTotals
    /\ component_details = <<>>
    /\ ti = 0

(* Request bodies and replies of the routes of src/app.py.                 *)
Body(description, keywords, comps) ==
    [description |-> description, keywords |-> keywords,
     components |-> comps]

Present(list) == [has |-> TRUE, list |-> list]
Absent == [has |-> FALSE, list |-> <<>>]
NoBody == Body(NoDesc, Absent, Absent)

NoStats == [total |-> 0, matched |-> 0, unmatched |-> 0]

\* jsonify(...), status: the reply to a request of a route
Reply(route, rule_id, data, status, success) ==
    [route |-> route, rule_id |-> rule_id, data |-> data, status |-> status,
     success |-> success, stats |-> NoStats, all_breakdowns |-> <<>>]

NoResponse == Reply("none", 0, NoBody, 0, FALSE)

MaxClients == 2     \* clients that send add_rule requests at the same time

\* an add_rule request: not sent, or past the query for the highest rule_id
NoRequest == [stage |-> "none", new_id |-> 0, data |-> NoBody]
NoRequests == [p \in 1..MaxClients |-> NoRequest]

\* fetch_orders is not being called
NoReply == [kind |-> "none", errors |-> Absent, has_data |-> FALSE]
NoFetch ==
    [status |-> "none", store |-> 0, credentials |-> FALSE, page_size |-> 0,
     cursor |-> 0, has_next_page |-> FALSE, use_cost_query |-> FALSE,
     all_orders |-> <<>>, data |-> NoReply,
     restarts |-> 0, switches |-> 0, discarded |-> FALSE]

\* no stored rule, no response, no request in flight: the web routes and the
\* store client take no part
NoWeb ==
    /\ user_rules = <<>>
    /\ response = NoResponse
    /\ assigned_ids = {}
    /\ requests = NoRequests
    /\ fetch = NoFetch

(* Calculation inputs: one rule with keyword "aB", an order of one line    *)
(* item that matches it or not, and a range of components, costs, totals   *)
(* and tax lines.                                                          *)
CalcComps ==
    {Comp(InvestorT,  "percentage", Num(20), Num(1)),
     Comp(ConsignerT, "flat",       Num(10), Num(2)),
     Comp(ConsignerT, "flat",       Str(<<"1","5","0">>), Num(1)),
     Comp(InvestorT,  "percentage", Num(20), Num(2)),
     Comp(VendorT,    "flat",       Num(10), Num(1)),
     Comp(VendorT,    "percentage", Str(<<"2","0">>), None)}

CalcTaxLines ==
    {TaxLine(<<"C","A">>, Str(<<"8",".","0","0">>), Str(<<"0",".","0","8">>),
             Str(<<"8">>)),
     TaxLine(<<"U","S">>, Str(<<"2",".","0","0">>), None, Num(2)),
     TaxLine(<<"G","S","T">>, Str(<<"2","2",".","0","0">>), None, None)}

CalcItems ==
    {Item(<<"A","b">>, <<>>, <<>>, <<>>, <<>>, <<>>),
     Item(<<>>, <<"c">>, <<>>, <<>>, <<>>, <<>>)}

CalcOrder(it, tp, tc, tl) ==
    [line_items |-> <<it>>,
     subtotal_price |-> Str(<<"2","0","0">>),
     total_price |-> tp,
     total_cost |-> tc,
     tax_lines |-> tl]

CalcTotals == {Str(<<"2","2","0",".","0","0">>), Str(<<"0">>)}

\* orders whose cost is absent or a whole amount
CalcOrders ==
    {CalcOrder(it, tp, tc, tl) :
        it \in CalcItems,
        tp \in CalcTotals,
        tc \in {None, Str(<<"5","0",".","0">>), Str(<<"1","0","0">>)},
        tl \in SeqUpTo(CalcTaxLines, MaxTaxLines)}

CalcRule(cs) ==
    <<[description |-> Desc("A"), keywords |-> <<<<"a","B">>>>,
       components |-> cs]>>

CalcRules == {CalcRule(cs) : cs \in SeqUpTo(CalcComps, MaxComps)}

(* Rounding inputs: an order whose cost has a fractional part, with rules  *)
(* of flat components only, so that tax amounts fall between cents.        *)
CentOrders ==
    {CalcOrder(it, tp, Str(<<"0",".","3">>), tl) :
        it \in CalcItems,
        tp \in CalcTotals,
        tl \in SeqUpTo(CalcTaxLines, MaxTaxLines)}

FlatRules ==
    {CalcRule(cs) :
        cs \in SeqUpTo({c \in CalcComps : c.calc_type = "flat"}, MaxComps)}

Init ==
    /\ \/ rules \in CalcRules /\ orders \in {<<o>> : o \in CalcOrders}
       \/ rules \in FlatRules /\ orders \in {<<o>> : o \in CentOrders}
    /\ base_arg \in {"subtotal", "total"}
    /\ InitLocals
    /\ NoWeb

Spec == Init /\ [][Next]_vars


(* Matching inputs: up to MaxRules rules, each with one of a few keyword   *)
(* lists and with components that tell the rules apart, and orders of up   *)
(* to MaxLineItems line items with varied searchable fields.               *)
ConsignmentArtPiece ==
    <<"C","o","n","s","i","g","n","m","e","n","t"," ","A","r","t"," ",
      "P","i","e","c","e">>

MatchItems ==
    {Item(n, <<"c","A">>, vp[1], vp[2], tc[1], tc[2]) :
        n  \in {<<>>, ConsignmentArtPiece},
        vp \in {<<<<>>, <<>>>>, <<<<"B">>, <<"a">>>>},
        tc \in {<<<<>>, <<>>>>, <<<<<<>>, <<"c">>>>, <<<<"C","a">>>>>>}}

MatchKeywords ==
    {<<>>,
     <<<<"c","o","n","s","i","g","n">>>>,
     <<<<"E"," ","b">>>>,
     <<<<"x">>, <<"C","A">>>>,
     <<<<>>>>}

RuleNames == <<"A", "B", "C", "D">>

MatchRule(k, kws) ==
    [description |-> Desc(RuleNames[k]),
     keywords |-> kws,
     components |->
        <<Comp(IF k = 1 THEN InvestorT ELSE IF k = 2 THEN ConsignerT ELSE VendorT,
               "flat", Num(10 * k), Num(1))>>]

MatchRules ==
    {[k \in 1..Len(kss) |-> MatchRule(k, kss[k])] :
        kss \in SeqUpTo(MatchKeywords, MaxRules)}

MatchOrders ==
    {[line_items |-> its,
      subtotal_price |-> Str(<<"2","0","0">>),
      total_price |-> Str(<<"2","2","0",".","0","0">>),
      total_cost |-> None,
      tax_lines |-> <<TaxLine(<<"U","S">>, Str(<<"2",".","0","0">>), None, Num(2))>>] :
        its \in SeqUpTo(MatchItems, MaxLineItems)}

InitMatch ==
    /\ rules \in MatchRules
    /\ orders \in {<<o>> : o \in MatchOrders}
    /\ base_arg = "subtotal"
    /\ InitLocals
    /\ NoWeb

SpecMatch == InitMatch /\ [][Next]_vars

(* Edge inputs: rules of percentage components of 0, 20, 50 and 150 per    *)
(* cent, labelled components, a revenue component, a component of a type   *)
(* and one of a calc_type the engine does not know; batches of up to       *)
(* MaxOrders orders with base 200 or 0, with no tax line or three, the     *)
(* first of which is skipped on the order without total.                   *)
MaxOrders == 2   \* orders per batch

Labelled(c, label) == [c EXCEPT !.label = label]

BonusT == <<"b","o","n","u","s">>

EdgeComps ==
    {Comp(InvestorT,  "percentage", Num(20),  Num(1)),
     Labelled(Comp(ConsignerT, "percentage", Num(50), Num(2)), <<" ","x"," ">>),
     Comp(VendorT,    "percentage", Num(0),   Num(1)),
     Comp(InvestorT,  "percentage", Num(150), Num(1)),
     Labelled(Comp(ConsignerT, "flat", Num(10), Num(1)), <<"a",":","b">>),
     Labelled(Comp(InvestorT,  "flat", Num(5),  Num(2)), <<"x">>),
     Comp(RevenueT,   "percentage", Num(100), Num(1)),
     Comp(BonusT,     "flat",       Num(10),  Num(1)),
     Comp(InvestorT,  "fixed",      Num(10),  Num(2))}

EdgeRules == {CalcRule(cs) : cs \in SeqUpTo(EdgeComps, MaxComps)}

ThreeTaxLines ==
    <<TaxLine(<<"C","A">>, Str(<<"8",".","0","0">>), None, Str(<<"8">>)),
      TaxLine(<<"U","S">>, Str(<<"2",".","0","0">>), None, Num(2)),
      TaxLine(<<"G","S","T">>, Str(<<"2","2",".","0","0">>), None, None)>>

EdgeOrder(it, tc, tl) ==
    CalcOrder(it, Str(<<"2","2","0",".","0","0">>), tc, tl)

EdgeOrders ==
    {EdgeOrder(Item(<<"A","b">>, <<>>, <<>>, <<>>, <<>>, <<>>), None, <<>>),
     EdgeOrder(Item(<<"A","b">>, <<>>, <<>>, <<>>, <<>>, <<>>), None, ThreeTaxLines),
     EdgeOrder(Item(<<"A","b">>, <<>>, <<>>, <<>>, <<>>, <<>>),
               Str(<<"2","0","0">>), <<>>),
     EdgeOrder(Item(<<>>, <<"c">>, <<>>, <<>>, <<>>, <<>>), None, ThreeTaxLines),
     CalcOrder(Item(<<"A","b">>, <<>>, <<>>, <<>>, <<>>, <<>>), Str(<<"0">>), None,
               <<ThreeTaxLines[3], ThreeTaxLines[1], ThreeTaxLines[2]>>)}

InitEdge ==
    /\ rules \in EdgeRules
    /\ orders \in SeqUpTo(EdgeOrders, MaxOrders)
    /\ base_arg = "subtotal"
    /\ InitLocals
    /\ NoWeb

SpecEdge == InitEdge /\ [][Next]_vars

----------------------------------------------------------------------------
(* The rule routes and the fetch route of src/app.py.  user_rules holds    *)
(* the UserRule rows of the current user in insertion order, which is the  *)
(* order query(...).all() is taken to return them in.  A request body is   *)
(*   [description |-> [has, s], keywords |-> [has, list],                  *)
(*    components |-> [has, list]]                                          *)
(* where has tells whether the key is present in request.json.             *)

MaxRuleId == MaxRules + 1   \* add_rule is not called beyond this rule_id

\* 'key' in comp
HasKey(comp, key) ==
    CASE key = "type"      -> "type" \notin comp.absent
      [] key = "calc_type" -> "calc_type" \notin comp.absent
      [] key = "value"     -> comp.value.t # "none"
      [] key = "order"     -> comp.order.t # "none"

\* data.get('components', [])
ComponentsOf(data) == IF data.components.has THEN data.components.list ELSE <<>>

\* the check of the components' keys left out
ValidateNonEmpty(data) == IF Len(ComponentsOf(data)) = 0 THEN 400 ELSE 0

\* lines 1349-1357 and 1404-1412: the status the validation returns, 0 if none
ValidateComponents(data) ==
    LET comps == ComponentsOf(data)
    IN  IF Len(comps) = 0 THEN 400
        ELSE IF \E c \in 1..Len(comps) :
                   \E key \in {"type", "calc_type", "value", "order"} :
                       ~HasKey(comps[c], key)
        THEN 400
        ELSE 0

\* data['description'] or data['keywords'] raises KeyError, answered by the
\* outer handler with status 400
MissingKey(data) == ~data.description.has \/ ~data.keywords.has

\* the rule_id values stored for the user
StoredIds == {user_rules[k].rule_id : k \in 1..Len(user_rules)}

\* order_by(UserRule.rule_id.desc()).first(): the highest rule_id, 0 if none
MaxStoredId ==
    IF StoredIds = {} THEN 0
    ELSE CHOOSE i \in StoredIds : \A j \in StoredIds : j <= i

\* filter_by(user_id, rule_id).first(): index of the first such row, 0 if none
RowOf(rule_id) ==
    IF rule_id \in StoredIds
    THEN CHOOSE k \in 1..Len(user_rules) :
            /\ user_rules[k].rule_id = rule_id
            /\ \A j \in 1..(k - 1) : user_rules[j].rule_id # rule_id
    ELSE 0

Row(rule_id, data) ==
    [rule_id |-> rule_id, description |-> data.description.s,
     keywords |-> data.keywords.list, components |-> ComponentsOf(data)]

\* lines 1337-1377: POST /api/rules
add_rule(data) ==
    /\ pc = "idle"
    /\ LET new_id == MaxStoredId + 1
       IN  IF ValidateComponents(data) # 0
           THEN /\ response' = Reply("add_rule", 0, data, ValidateComponents(data), FALSE)
                /\ UNCHANGED <<user_rules, assigned_ids>>
           ELSE IF MissingKey(data)
           THEN /\ response' = Reply("add_rule", 0, data, 400, FALSE)
                /\ UNCHANGED <<user_rules, assigned_ids>>
           ELSE /\ Len(user_rules) < MaxRules
                /\ new_id <= MaxRuleId
                /\ user_rules' = Append(user_rules, Row(new_id, data))
                /\ assigned_ids' = assigned_ids \cup {new_id}
                /\ response' = Reply("add_rule", 0, data, 200, TRUE)
    /\ UNCHANGED <<rules, orders, base_arg, breakdowns, pc, base, total_cost,
                   li, rule, rule_applied, matched_rules, components, ci,
                   remaining_amount, totals, component_details, ti,
                   requests, fetch>>

\* lines 1380-1425, method PUT
update_rule(rule_id, data) ==
    /\ pc = "idle"
    /\ LET k == RowOf(rule_id)
       IN  IF k = 0
           THEN /\ response' = Reply("update_rule", rule_id, data, 404, FALSE)
                /\ UNCHANGED user_rules
           ELSE IF ValidateComponents(data) # 0
           THEN /\ response' = Reply("update_rule", rule_id, data,
                                     ValidateComponents(data), FALSE)
                /\ UNCHANGED user_rules
           ELSE IF MissingKey(data)
           THEN /\ response' = Reply("update_rule", rule_id, data, 400, FALSE)
                /\ UNCHANGED user_rules
           ELSE /\ user_rules' = [user_rules EXCEPT ![k] = Row(rule_id, data)]
                /\ response' = Reply("update_rule", rule_id, data, 200, TRUE)
    /\ UNCHANGED <<assigned_ids, rules, orders, base_arg, breakdowns, pc, base,
                   total_cost, li, rule, rule_applied, matched_rules,
                   components, ci, remaining_amount, totals,
                   component_details, ti, requests, fetch>>

\* lines 1380-1395, method DELETE
delete_rule(rule_id) ==
    /\ pc = "idle"
    /\ LET k == RowOf(rule_id)
       IN  IF k = 0
           THEN /\ response' = Reply("delete_rule", rule_id, NoBody, 404, FALSE)
                /\ UNCHANGED user_rules
           ELSE /\ user_rules' = SubSeq(user_rules, 1, k - 1)
                                 \o SubSeq(user_rules, k + 1, Len(user_rules))
                /\ response' = Reply("delete_rule", rule_id, NoBody, 200, TRUE)
    /\ UNCHANGED <<assigned_ids, rules, orders, base_arg, breakdowns, pc, base,
                   total_cost, li, rule, rule_applied, matched_rules,
                   components, ci, remaining_amount, totals,
                   component_details, ti, requests, fetch>>

\* lines 1443-1453: the rule_list built from the stored rules (the id, which
\* the engine never reads, is left out)
RuleList ==
    [k \in 1..Len(user_rules) |->
        [description |-> Desc(user_rules[k].description),
         keywords |-> user_rules[k].keywords,
         components |-> user_rules[k].components]]

\* lines 1428-1455: POST /api/fetch up to the call of process_orders, which
\* then runs on the orders fetched and on the rules as stored at this point
fetch_orders_api(fetched) ==
    /\ pc = "idle"
    /\ orders' = fetched
    /\ rules' = RuleList
    /\ base_arg' = "subtotal"
    /\ breakdowns' = <<>>
    /\ pc' = IF Len(fetched) > 0 THEN "call" ELSE "return"
    /\ response' = Reply("fetch", 0, NoBody, 0, FALSE)
    /\ UNCHANGED <<user_rules, assigned_ids, base, total_cost, li, rule,
                   rule_applied, matched_rules, components, ci,
                   remaining_amount, totals, component_details, ti,
                   requests, fetch>>

\* lines 1457-1466
Stats(bs) ==
    [total     |-> Len(bs),
     matched   |-> Cardinality({k \in 1..Len(bs) : bs[k].matched_rules # "No match"}),
     unmatched |-> Cardinality({k \in 1..Len(bs) : bs[k].matched_rules = "No match"})]

\* the engine and the locals of the handler are dropped when it returns
DropLocals ==
    /\ rules' = <<>>
    /\ orders' = <<>>
    /\ breakdowns' = <<>>
    /\ base' = Zero
    /\ total_cost' = Zero
    /\ li' = 0
    /\ rule' = 0
    /\ rule_applied' = 0
    /\ matched_rules' = <<>>
    /\ components' = <<>>
    /\ ci' = 0
    /\ remaining_amount' = Zero
    /\ totals' = ZeroTotals
    /\ component_details' = <<>>
    /\ ti' = 0

\* lines 1457-1474: process_orders has returned, the reply carries the stats
fetch_orders_return ==
    /\ pc = "return"
    /\ response.route = "fetch"
    /\ response' = [Reply("fetch", 0, NoBody, 200, TRUE) EXCEPT
                       !.stats = Stats(breakdowns),
                       !.all_breakdowns = breakdowns]
    /\ pc' = "idle"
    /\ DropLocals
    /\ UNCHANGED <<user_rules, assigned_ids, base_arg, requests, fetch>>

\* lines 1475-1476: process_orders has raised, the handler answers 400
fetch_orders_except ==
    /\ pc = "raised"
    /\ response.route = "fetch"
    /\ response' = Reply("fetch", 0, NoBody, 400, FALSE)
    /\ pc' = "idle"
    /\ DropLocals
    /\ UNCHANGED <<user_rules, assigned_ids, base_arg, requests, fetch>>

(* Requests: bodies that are well formed, that have no keyword, a          *)
(* component value that is no number, no component, a component without    *)
(* type or value, or no description; batches of up to MaxOrders orders.    *)
ValidComp      == Comp(InvestorT, "flat", Num(10), Num(1))
NonNumericComp == Comp(InvestorT, "flat", Str(<<"a","b","c">>), Num(1))
NoValueComp    == Comp(InvestorT, "flat", None, Num(1))
NoTypeComp     == [Comp(<<>>, "", Num(10), Num(1)) EXCEPT
                      !.absent = {"type", "calc_type"}]

Keyword == <<<<"a","B">>>>

AppBodies ==
    {Body(Desc("A"), Present(Keyword), Present(<<ValidComp>>)),
     Body(Desc("No match"), Present(Keyword), Present(<<ValidComp>>)),
     Body(Desc("A"), Present(<<>>), Present(<<ValidComp>>)),
     Body(Desc("A"), Present(Keyword), Present(<<NonNumericComp>>)),
     Body(Desc("A"), Present(Keyword), Present(<<>>)),
     Body(Desc("A"), Present(Keyword), Absent),
     Body(Desc("A"), Present(Keyword), Present(<<ValidComp, NoTypeComp>>)),
     Body(Desc("A"), Present(Keyword), Present(<<NoValueComp>>)),
     Body(NoDesc, Present(Keyword), Present(<<ValidComp>>))}

AppOrders ==
    {EdgeOrder(Item(<<"A","b">>, <<>>, <<>>, <<>>, <<>>, <<>>), None,
               <<TaxLine(<<"U","S">>, Str(<<"2",".","0","0">>), None, Num(2))>>),
     EdgeOrder(Item(<<>>, <<"c">>, <<>>, <<>>, <<>>, <<>>), None, <<>>)}

InitApp ==
    /\ user_rules = <<>>
    /\ assigned_ids = {}
    /\ response = NoResponse
    /\ requests = NoRequests
    /\ fetch = NoFetch
    /\ rules = <<>>
    /\ orders = <<>>
    /\ base_arg = "subtotal"
    /\ breakdowns = <<>>
    /\ pc = "idle"
    /\ base = Zero
    /\ total_cost = Zero
    /\ li = 0
    /\ rule = 0
    /\ rule_applied = 0
    /\ matched_rules = <<>>
    /\ components = <<>>
    /\ ci = 0
    /\ remaining_amount = Zero
    /\ totals = ZeroTotals
    /\ component_details = <<>>
    /\ ti = 0

NextApp ==
    \/ \E data \in AppBodies : add_rule(data)
    \/ \E rule_id \in 1..MaxRuleId, data \in AppBodies : update_rule(rule_id, data)
    \/ \E rule_id \in 1..MaxRuleId : delete_rule(rule_id)
    \/ \E fetched \in SeqUpTo(AppOrders, MaxOrders) : fetch_orders_api(fetched)
    \/ Start
    \/ MatchLineItem
    \/ PrepareComponents
    \/ NoMatch
    \/ ApplyComponent
    \/ TaxGate
    \/ ApplyTaxLine
    \/ Residual
    \/ Emit
    \/ fetch_orders_return
    \/ fetch_orders_except

SpecApp == InitApp /\ [][NextApp]_vars


----------------------------------------------------------------------------
(* Properties.                                                             *)

AllocTypes == {InvestorT, ConsignerT, VendorT}

\* the calculation of the current order is under way
InCall == pc \in {"match", "branch", "alloc", "tax", "residual", "emit"}

\* the allocation pass of the current order has just ended
AllocEnded == pc = "alloc" /\ ci > Len(components)

\* the investor/consigner/vendor components of a rule, in input order
AllocComps(rl) == SelectSeq(rl.components, LAMBDA c : c.type \in AllocTypes)

OrderField(c) == IF c.order.t = "none" THEN Rat(999) ELSE c.order.v

\* position of cs[j] when cs is put in ascending order, ties in input order
StableRank(cs, j) ==
    Cardinality({i \in 1..Len(cs) :
        \/ RLt(OrderField(cs[i]), OrderField(cs[j]))
        \/ OrderField(cs[i]) = OrderField(cs[j]) /\ i < j}) + 1

InAscendingOrder(cs) ==
    [p \in 1..Len(cs) |-> cs[CHOOSE j \in 1..Len(cs) : StableRank(cs, j) = p]]

WaterfallAmount(c, remaining) ==
    IF c.calc_type = "flat" THEN ToFloat(c.value)
    ELSE RDiv(RMul(remaining, ToFloat(c.value)), Hundred)

RECURSIVE WaterfallRemaining(_, _, _)
\* what remains of b after the first p components of app
WaterfallRemaining(app, b, p) ==
    IF p = 0 THEN b
    ELSE LET r == WaterfallRemaining(app, b, p - 1)
         IN  RSub(r, WaterfallAmount(app[p], r))

RECURSIVE WaterfallTotal(_, _, _, _)
\* total taken by the components of type t among the first p of app
WaterfallTotal(app, b, p, t) ==
    IF p = 0 THEN Zero
    ELSE LET r == WaterfallRemaining(app, b, p - 1)
         IN  RAdd(WaterfallTotal(app, b, p - 1, t),
                  IF app[p].type = t THEN WaterfallAmount(app[p], r) ELSE Zero)

ExampleComps ==
    <<Comp(InvestorT, "percentage", Num(20), Num(1)),
      Comp(ConsignerT, "flat", Num(10), Num(2))>>

\* the order and rule of the worked example: subtotal 200, cost 50, no tax lines
IsExample(k) ==
    /\ base_arg = "subtotal"
    /\ ToFloat(orders[k].subtotal_price) = Rat(200)
    /\ orders[k].total_cost.t # "none"
    /\ ToFloat(orders[k].total_cost) = Rat(50)
    /\ orders[k].tax_lines = <<>>
    /\ Len(rules) = 1
    /\ rules[1].components = ExampleComps
    /\ breakdowns[k].matched_rules # "No match"

(* C1: for a matched rule the investor/consigner/vendor components are     *)
(* applied in ascending order (ties in input order) starting from          *)
(* remaining = base_amount; a flat component takes its value, a percentage *)
(* component takes value/100 of the current remaining amount; each amount  *)
(* is subtracted from remaining and added to the total of its type.  With  *)
(* subtotal 200, cost 50, [investor 20% order 1, consigner flat 10 order   *)
(* 2] and no tax lines: investor 30, consigner 10, revenue 110.            *)
C1_Waterfall ==
    /\ AllocEnded =>
          LET app == InAscendingOrder(AllocComps(rules[rule_applied]))
              n   == Len(app)
          IN  /\ Len(component_details) = n
              /\ \A p \in 1..n :
                    /\ component_details[p].type = app[p].type
                    /\ component_details[p].amount =
                          WaterfallAmount(app[p], WaterfallRemaining(app, base, p - 1))
              /\ remaining_amount = WaterfallRemaining(app, base, n)
              /\ totals.investor  = WaterfallTotal(app, base, n, InvestorT)
              /\ totals.consigner = WaterfallTotal(app, base, n, ConsignerT)
              /\ totals.vendor    = WaterfallTotal(app, base, n, VendorT)
    /\ \A k \in 1..Len(breakdowns) :
          IsExample(k) =>
              /\ breakdowns[k].investor  = Rat(30)
              /\ breakdowns[k].consigner = Rat(10)
              /\ breakdowns[k].revenue   = Rat(110)

\* the worked example has been calculated
C1_Witness ==
    /\ Len(breakdowns) = 1
    /\ IsExample(1)
    /\ breakdowns[1].revenue = Rat(110)


\* needle occurs in hay when the case of letters is ignored
CIContains(hay, needle) ==
    \E k \in 0..(Len(hay) - Len(needle)) :
        \A i \in 1..Len(needle) : ToLower(hay[k + i]) = ToLower(needle[i])

\* the searchable fields of a line item as written: title or name, vendor,
\* product type, tags, collections, the empty ones left out
Fields(line_item) ==
    SelectSeq(<<IF line_item.name # <<>> THEN line_item.name ELSE line_item.title,
                line_item.vendor, line_item.product_type>>
              \o line_item.tags \o line_item.collections,
              LAMBDA f : f # <<>>)

\* rule rl has a keyword that occurs, case ignored, in the combined text
KeywordHit(rl, line_item) ==
    \E k \in 1..Len(rl.keywords) :
        CIContains(Join(Fields(line_item)), rl.keywords[k])

\* no rule has a keyword hit on any line item of order k
NoRuleMatchesOrder(k) ==
    \A i \in 1..Len(orders[k].line_items) : \A r \in 1..Len(rules) :
        ~KeywordHit(rules[r], orders[k].line_items[i])

C3_FirstMatch ==
    (InCall /\ li >= 1) =>
        LET line_item == CurOrder.line_items[li]
            hits == {r \in 1..Len(rules) : KeywordHit(rules[r], line_item)}
        IN  /\ rule = 0 <=> hits = {}
            /\ rule # 0 => rule \in hits /\ \A r \in hits : rule <= r
            /\ \A r \in 1..Len(rules) :
                  (/\ line_item.name = ConsignmentArtPiece
                   /\ rules[r].keywords = <<<<"c","o","n","s","i","g","n">>>>)
                  => rule # 0 /\ rule <= r

\* "consign" has matched "Consignment Art Piece" for the second rule of the
\* list, the first rule having no hit
C3_Witness ==
    /\ InCall /\ li >= 1
    /\ CurOrder.line_items[li].name = ConsignmentArtPiece
    /\ rule = 2
    /\ rules[2].keywords = <<<<"c","o","n","s","i","g","n">>>>


\* the match loop of the current order is over
Matched == pc \in {"branch", "alloc", "tax", "residual", "emit"}

\* the totals that the components of rule r alone give from the base
TotalsOfRule(r, t) ==
    LET app == InAscendingOrder(AllocComps(rules[r]))
    IN  WaterfallTotal(app, base, Len(app), t)

\* at the end of the calculation exactly rule r has been applied
AppliedExactly(r) ==
    /\ rule_applied = r
    /\ matched_rules = <<DescriptionOf(rules[r])>>
    /\ Len(SelectSeq(component_details, LAMBDA d : d.type \in AllocTypes))
          = Len(AllocComps(rules[r]))
    /\ totals.investor  = TotalsOfRule(r, InvestorT)
    /\ totals.consigner = TotalsOfRule(r, ConsignerT)
    /\ totals.vendor    = TotalsOfRule(r, VendorT)

(* C4: the rule applied to an order is the result of find_matching_rule on *)
(* the first line item for which that result is not None; later line items *)
(* do not change the choice, and exactly one rule (one description in      *)
(* matched_rules, one rule's components) is applied to the whole order.    *)
C4_FirstLineItem ==
    LET items == CurOrder.line_items
        found == {i \in 1..Len(items) : FindMatchingRule(rules, items[i]) # 0}
        first == CHOOSE i \in found : \A j \in found : i <= j
    IN  /\ Matched =>
              IF found = {} THEN rule_applied = 0 /\ matched_rules = <<>>
              ELSE /\ rule_applied = FindMatchingRule(rules, items[first])
                   /\ Len(matched_rules) = 1
        /\ (pc = "emit" /\ found # {}) =>
              AppliedExactly(FindMatchingRule(rules, items[first]))

\* an order whose first line item gives rule 2 and whose second gives rule 1
\* has been calculated with rule 2
C4_Witness ==
    /\ pc = "emit"
    /\ Len(CurOrder.line_items) = 2
    /\ FindMatchingRule(rules, CurOrder.line_items[1]) = 2
    /\ FindMatchingRule(rules, CurOrder.line_items[2]) = 1
    /\ rule_applied = 2

\* rule r has a keyword hit on some line item of the current order
HitsOrder(r) ==
    \E i \in 1..Len(CurOrder.line_items) :
        KeywordHit(rules[r], CurOrder.line_items[i])

\* rule r has a keyword hit on the first line item on which any rule has one
HitsFirstMatchingItem(r) ==
    \E i \in 1..Len(CurOrder.line_items) :
        /\ KeywordHit(rules[r], CurOrder.line_items[i])
        /\ \A j \in 1..(i - 1) : \A q \in 1..Len(rules) :
              ~KeywordHit(rules[q], CurOrder.line_items[j])

(* C5 as claimed: if rule A precedes rule B and both have a keyword that   *)
(* matches the order's line items, A's components apply exclusively and    *)
(* matched_rules is A's description, never B's.                            *)
C5_Original ==
    pc = "emit" =>
        \A a \in 1..Len(rules) : \A b \in 1..Len(rules) :
            (a < b /\ HitsOrder(a) /\ HitsOrder(b)) =>
                /\ rule_applied # b
                /\ (\A q \in 1..(a - 1) : ~HitsOrder(q)) => AppliedExactly(a)

(* C5 as amended: if rule A precedes rule B and both have a keyword that   *)
(* matches the first line item on which any rule has a hit, A's components *)
(* apply exclusively and matched_rules is A's description, never B's.      *)
C5_RuleOrder ==
    pc = "emit" =>
        \A a \in 1..Len(rules) : \A b \in 1..Len(rules) :
            (a < b /\ HitsFirstMatchingItem(a) /\ HitsFirstMatchingItem(b)) =>
                /\ rule_applied # b
                /\ (\A q \in 1..(a - 1) : ~HitsFirstMatchingItem(q))
                      => AppliedExactly(a)

\* both rules hit the first matching line item and the first rule is applied
C5_Witness ==
    /\ pc = "emit"
    /\ Len(rules) = 2
    /\ HitsFirstMatchingItem(1)
    /\ HitsFirstMatchingItem(2)
    /\ rules[1].keywords # rules[2].keywords
    /\ AppliedExactly(1)


\* a call has returned: the locals are those of the breakdown appended last
Returned == pc \in {"call", "return"} /\ Len(breakdowns) >= 1
LastOrder == orders[Len(breakdowns)]
LastBreakdown == breakdowns[Len(breakdowns)]

AllocDetails == SelectSeq(component_details, LAMBDA d : d.type \in AllocTypes)
TaxDetails   == SelectSeq(component_details, LAMBDA d : d.type \in TaxTypes)

\* every component of every rule has a value >= 0
ValuesNonNegative ==
    \A r \in 1..Len(rules) : \A c \in 1..Len(rules[r].components) :
        RLe(Zero, ToFloat(rules[r].components[c].value))

(* C6 as claimed: for a matched rule whose component values are            *)
(* non-negative, each of revenue, investor, consigner, vendor, state_taxes *)
(* and federal_taxes of the breakdown is >= 0, also after a flat component *)
(* has over-consumed the remaining amount.                                 *)
C6_NonNegative ==
    \A k \in 1..Len(breakdowns) :
        ValuesNonNegative =>
            /\ RLe(Zero, breakdowns[k].revenue)
            /\ RLe(Zero, breakdowns[k].investor)
            /\ RLe(Zero, breakdowns[k].consigner)
            /\ RLe(Zero, breakdowns[k].vendor)
            /\ RLe(Zero, breakdowns[k].state_taxes)
            /\ RLe(Zero, breakdowns[k].federal_taxes)

(* C7: revenue is never negative, and whenever the deductions (allocation  *)
(* components plus taxes) exceed the base they are taken from, revenue is  *)
(* exactly 0 and the breakdown is still produced.                          *)
C7_Clamp ==
    /\ \A k \in 1..Len(breakdowns) : RLe(Zero, breakdowns[k].revenue)
    /\ pc = "emit" => RLe(Zero, totals.revenue)
    /\ (Returned /\ rule_applied # 0 /\ RLt(base, SumAmounts(component_details)))
          => totals.revenue = Zero /\ LastBreakdown.revenue = Zero

\* deductions beyond the base have been made and a breakdown was returned
C7_Witness ==
    /\ Returned
    /\ rule_applied # 0
    /\ RLt(base, SumAmounts(component_details))
    /\ RLt(remaining_amount, Zero)
    /\ LastBreakdown.revenue = Zero

\* max(0, B - total_cost) for order o, an absent cost counting as 0
ExpectedBase(o) ==
    LET b    == IF base_arg = "subtotal" THEN ToFloat(o.subtotal_price)
                ELSE ToFloat(o.total_price)
        cost == IF o.total_cost.t = "none" THEN Zero ELSE ToFloat(o.total_cost)
        d    == RSub(b, cost)
    IN  IF RLt(d, Zero) THEN Zero ELSE d

(* C8: base_amount = max(0, B - total_cost) with B the subtotal_price when *)
(* the base_amount argument is "subtotal" and the total_price otherwise;   *)
(* it is never negative, an absent total_cost counts as 0, and the         *)
(* waterfall starts from it.                                               *)
C8_Base ==
    /\ \A k \in 1..Len(breakdowns) :
          /\ breakdowns[k].base_amount = ExpectedBase(orders[k])
          /\ RLe(Zero, breakdowns[k].base_amount)
    /\ (pc \in {"match", "branch"} \/ (pc = "alloc" /\ ci = 1)) =>
          /\ base = ExpectedBase(CurOrder)
          /\ remaining_amount = base

\* a cost above the total has been floored, and an absent cost was taken as 0
C8_Witness ==
    /\ Returned
    /\ base_arg = "total"
    /\ LastOrder.total_cost.t # "none"
    /\ RLt(ToFloat(LastOrder.total_price), ToFloat(LastOrder.total_cost))
    /\ LastBreakdown.base_amount = Zero

\* the tax scenario: 100 remains when the tax pass starts and the order has
\* two tax lines with rate_percentage 8 and 2, in that order
IsTaxScenario ==
    /\ Returned
    /\ rule_applied # 0
    /\ RSub(base, SumAmounts(AllocDetails)) = Rat(100)
    /\ Len(LastOrder.tax_lines) = 2
    /\ LastOrder.tax_lines[1].rate_percentage.t # "none"
    /\ LastOrder.tax_lines[2].rate_percentage.t # "none"
    /\ ToFloat(LastOrder.tax_lines[1].rate_percentage) = Rat(8)
    /\ ToFloat(LastOrder.tax_lines[2].rate_percentage) = Rat(2)

(* C9 as claimed: in the tax scenario the breakdown has state_taxes 8.00,  *)
(* federal_taxes 2.00 and revenue 90.00.                                   *)
C9_Original ==
    IsTaxScenario =>
        /\ LastBreakdown.state_taxes = Rat(8)
        /\ LastBreakdown.federal_taxes = Rat(2)
        /\ LastBreakdown.revenue = Rat(90)

(* C9 as amended: in the tax scenario the breakdown has state_taxes 8.00,  *)
(* federal_taxes 1.84 (2% of the 92 left after the first tax line) and     *)
(* revenue 90.16.                                                          *)
C9_TaxScenario ==
    IsTaxScenario =>
        /\ LastBreakdown.state_taxes = Rat(8)
        /\ LastBreakdown.federal_taxes = Norm(184, 100)
        /\ LastBreakdown.revenue = Norm(9016, 100)

\* the tax scenario has been calculated
C9_Witness ==
    /\ IsTaxScenario
    /\ LastBreakdown.federal_taxes = Norm(184, 100)

RECURSIVE SumValues(_)
\* sum of the values of a list of components
SumValues(cs) ==
    IF Len(cs) = 0 THEN Zero
    ELSE RAdd(ToFloat(Head(cs).value), SumValues(Tail(cs)))

\* the rule applied has flat components only
FlatOnly ==
    /\ rule_applied # 0
    /\ \A c \in 1..Len(rules[rule_applied].components) :
          rules[rule_applied].components[c].calc_type = "flat"

FlatSum == SumValues(rules[rule_applied].components)

RAbs(x) == IF RLt(x, Zero) THEN RNeg(x) ELSE x

(* C10 as claimed: for an order matched to a rule of flat components only  *)
(* whose values sum to less than the subtotal_price, revenue ==            *)
(* subtotal_price - total_cost - sum(flat values) - (state_taxes +         *)
(* federal_taxes), exactly at 2 decimals.                                  *)
C10_Original ==
    (/\ Returned /\ base_arg = "subtotal" /\ FlatOnly
     /\ RLt(FlatSum, ToFloat(LastOrder.subtotal_price))) =>
        LastBreakdown.revenue =
            RSub(RSub(RSub(ToFloat(LastOrder.subtotal_price),
                           ToFloat(Get(LastOrder.total_cost, Num(0)))),
                      FlatSum),
                 RAdd(LastBreakdown.state_taxes, LastBreakdown.federal_taxes))

(* C10 as amended: for an order matched to a rule of flat investor,        *)
(* consigner or vendor components only whose values sum to less than       *)
(* base_amount = max(0, B - total_cost), revenue == base_amount -          *)
(* sum(flat values) - (tax amounts deducted) rounded to 2 decimals; with   *)
(* the emitted, rounded state_taxes and federal_taxes the equality holds   *)
(* to within 0.01.                                                         *)
C10_FlatOnly ==
    (Returned /\ FlatOnly /\ RLt(FlatSum, LastBreakdown.base_amount)) =>
        /\ LastBreakdown.revenue =
              Round2(RSub(RSub(LastBreakdown.base_amount, FlatSum),
                          SumAmounts(TaxDetails)))
        /\ RLe(RAbs(RSub(LastBreakdown.revenue,
                         RSub(RSub(LastBreakdown.base_amount, FlatSum),
                              RAdd(LastBreakdown.state_taxes,
                                   LastBreakdown.federal_taxes)))),
               Norm(1, 100))

\* a flat-only rule has been applied and the rounded figures are a cent apart
C10_Witness ==
    /\ Returned /\ FlatOnly /\ RLt(FlatSum, LastBreakdown.base_amount)
    /\ Len(rules[rule_applied].components) > 0
    /\ LastBreakdown.revenue #
          RSub(RSub(LastBreakdown.base_amount, FlatSum),
               RAdd(LastBreakdown.state_taxes, LastBreakdown.federal_taxes))

\* the rule has components, all of them investor, consigner or vendor
\* components of calc_type percentage
PctOnly(rl) ==
    /\ Len(rl.components) > 0
    /\ \A c \in 1..Len(rl.components) :
          /\ CalcTypeOf(rl.components[c]) = "percentage"
          /\ TypeOf(rl.components[c]) \in AllocTypes

RECURSIVE PctProduct(_)
\* product over the components of (1 - value/100)
PctProduct(cs) ==
    IF Len(cs) = 0 THEN Rat(1)
    ELSE RMul(RSub(Rat(1), RDiv(ToFloat(Head(cs).value), Hundred)),
              PctProduct(Tail(cs)))

\* every value lies strictly between 0 and 100
ProperRates(rl) ==
    \A c \in 1..Len(rl.components) :
        /\ RLt(Zero, ToFloat(rl.components[c].value))
        /\ RLt(ToFloat(rl.components[c].value), Hundred)

\* a percentage-only rule is being applied
PctOnlyApplied == rule_applied # 0 /\ PctOnly(rules[rule_applied])

\* a step of the allocation loop that applies a component
ComponentStep == pc = "alloc" /\ ci' = ci + 1

(* C11 as claimed: for every rule with only percentage components the      *)
(* remaining amount strictly decreases after each component, and the       *)
(* remaining amount before the tax pass equals base_amount times the       *)
(* product over the components of (1 - value/100).                         *)
C11_Original ==
    [][PctOnlyApplied =>
          /\ ComponentStep => RLt(remaining_amount', remaining_amount)
          /\ AllocEnded' =>
                remaining_amount' =
                    RMul(base', PctProduct(rules[rule_applied].components))]_vars

(* C11 as amended: for every rule with only percentage components the      *)
(* remaining amount before the tax pass equals base_amount times the       *)
(* product over the components of (1 - value/100); it strictly decreases   *)
(* after each component when base_amount > 0 and every value lies strictly *)
(* between 0 and 100.                                                      *)
C11_Percentage ==
    [][PctOnlyApplied =>
          /\ (ComponentStep /\ RLt(Zero, base) /\ ProperRates(rules[rule_applied]))
                => RLt(remaining_amount', remaining_amount)
          /\ AllocEnded' =>
                remaining_amount' =
                    RMul(base', PctProduct(rules[rule_applied].components))]_vars

\* two percentage components with proper rates have been applied to a
\* positive base
C11_Witness ==
    /\ AllocEnded /\ PctOnlyApplied
    /\ ProperRates(rules[rule_applied])
    /\ Len(component_details) = 2
    /\ RLt(Zero, remaining_amount)
    /\ RLt(remaining_amount, base)

\* the types and calc_types the engine knows
KnownTypes == AllocTypes \cup TaxTypes \cup {RevenueT}
KnownCalcTypes == {"flat", "percentage"}

\* the component is of a type or of a calc_type the engine does not know
UnknownKind(c) ==
    \/ TypeOf(c) \notin KnownTypes
    \/ CalcTypeOf(c) \notin KnownCalcTypes

\* the rule applied to the current order holds such a component
UnknownApplied ==
    /\ rule_applied # 0
    /\ \E c \in 1..Len(rules[rule_applied].components) :
          UnknownKind(rules[rule_applied].components[c])

(* C12: calculate_order_breakdown fails fast when the matched rule holds a  *)
(* component whose type or calc_type is unknown: the call does not reach   *)
(* its return (no breakdown is emitted) and no deduction is recorded for a *)
(* component of unknown type.                                              *)
C12_FailFast ==
    (InCall /\ UnknownApplied) =>
        /\ pc # "emit"
        /\ \A d \in 1..Len(component_details) :
              component_details[d].type \in KnownTypes

\* the fetch handler replies: process_orders has returned or raised
FetchReplies ==
    /\ response.route = "fetch"
    /\ pc \in {"return", "raised"}
    /\ pc' = "idle"

\* the orders of the batch that no rule matches: no rule data takes part in
\* their breakdown
OrdersWithoutRule == {k \in 1..Len(orders) : NoRuleMatchesOrder(k)}

(* C13: partial-failure isolation.  When the breakdown of one order of a   *)
(* batch fails on malformed rule data, the reply still carries the         *)
(* breakdowns of the other orders: at least those of the orders that no    *)
(* rule matches.                                                           *)
C13_Isolation ==
    [][FetchReplies =>
          Len(response'.all_breakdowns) >= Cardinality(OrdersWithoutRule)]_vars

\* the components list is empty (or absent), or holds a component that lacks
\* one of type, calc_type, value, order
BadComponents(data) ==
    \/ ~data.components.has
    \/ data.components.list = <<>>
    \/ \E c \in 1..Len(data.components.list) :
          LET comp == data.components.list[c]
          IN  \/ comp.absent # {}
              \/ comp.value.t = "none"
              \/ comp.order.t = "none"

\* a step that serves a POST /api/rules or a PUT /api/rules/<id> request
\* whose components are bad
BadAuthoringServed ==
    /\ pc = "idle" /\ pc' = "idle"
    /\ response'.route \in {"add_rule", "update_rule"}
    /\ BadComponents(response'.data)

\* every rule handed to the engine has components, all of them complete
EngineRulesComplete ==
    \A r \in 1..Len(rules) :
        ~BadComponents([NoBody EXCEPT !.components = Present(rules[r].components)])

(* C14 as claimed: add_rule and the PUT branch of update_or_delete_rule     *)
(* answer success false with HTTP 400 to any request whose components list *)
(* is empty or holds a component without type, calc_type, value or order;  *)
(* the stored rules are unchanged and no such rule reaches the calculator. *)
C14_Original ==
    [][/\ BadAuthoringServed =>
             /\ response'.status = 400
             /\ ~response'.success
             /\ user_rules' = user_rules
       /\ EngineRulesComplete']_vars

(* C14 as amended: such a request is answered with success false and HTTP  *)
(* 400, or HTTP 404 when it is a PUT for a rule_id the user has no rule    *)
(* of; the stored rules are unchanged and no such rule reaches the         *)
(* calculator.                                                             *)
C14_Rejected ==
    [][/\ BadAuthoringServed =>
             /\ \/ response'.status = 400
                \/ /\ response'.status = 404
                   /\ response'.route = "update_rule"
                   /\ response'.rule_id \notin StoredIds
             /\ ~response'.success
             /\ user_rules' = user_rules
       /\ EngineRulesComplete']_vars

\* an update of a stored rule with a component that lacks a key has been
\* answered with 400
C14_Witness ==
    /\ pc = "idle"
    /\ response.route = "update_rule"
    /\ response.rule_id \in StoredIds
    /\ response.data.components.has
    /\ Len(response.data.components.list) = 2
    /\ BadComponents(response.data)
    /\ response.status = 400

(* C15: a rule with an empty keyword list is rejected by add_rule and by    *)
(* the rule update and never stored, so that no rule without keywords      *)
(* reaches the rule engine.                                                *)
C15_NoEmptyKeywords ==
    /\ \A k \in 1..Len(user_rules) : user_rules[k].keywords # <<>>
    /\ \A r \in 1..Len(rules) : rules[r].keywords # <<>>

\* add_rule stores a rule in this step
RuleAdded == Len(user_rules') = Len(user_rules) + 1

(* C16: every rule_id assigned by add_rule is strictly greater than every  *)
(* rule_id assigned to the user before, also after the rule with the       *)
(* highest rule_id has been deleted.                                       *)
C16_IdsIncrease ==
    [][RuleAdded =>
          \A i \in assigned_ids :
              user_rules'[Len(user_rules')].rule_id > i]_vars

(* C17: batch statistics.  stats.total is the number of orders processed,  *)
(* stats.matched + stats.unmatched = stats.total, stats.matched is the     *)
(* number of orders a rule was applied to and stats.unmatched the number   *)
(* of orders no rule was applied to; matched_rules is "No match" exactly   *)
(* for the latter, whatever the descriptions of the rules are.             *)
C17_Stats ==
    [][(response.route = "fetch" /\ pc = "return" /\ pc' = "idle") =>
          LET stats == response'.stats
          IN  /\ stats.total = Len(orders)
              /\ stats.matched + stats.unmatched = stats.total
              /\ stats.unmatched = Cardinality(OrdersWithoutRule)
              /\ stats.matched = Len(orders) - Cardinality(OrdersWithoutRule)
              /\ \A k \in 1..Len(orders) :
                    response'.all_breakdowns[k].matched_rules = "No match"
                        <=> k \in OrdersWithoutRule]_vars

----------------------------------------------------------------------------
(* parse_component_labels of src/exporter.py.  The regular expression      *)
(*   ^(Consigner|Investor)(?:\s*-\s*([^:]+))?:\s*\$\s*([\d.]+)             *)
(* is matched by hand; the only white space in the texts is the blank.     *)

ConsignerName == <<"C","o","n","s","i","g","n","e","r">>
InvestorName  == <<"I","n","v","e","s","t","o","r">>
DefaultKey    == <<"D","e","f","a","u","l","t">>

StartsWith(s, p) == Len(s) >= Len(p) /\ SubSeq(s, 1, Len(p)) = p

RECURSIVE SkipSpaces(_)
\* \s* at the start of s
SkipSpaces(s) ==
    IF Len(s) > 0 /\ s[1] = " " THEN SkipSpaces(Tail(s)) ELSE s

RECURSIVE AmountText(_)
\* [\d.]+ at the start of s: the longest run of digits and dots
AmountText(s) ==
    IF Len(s) > 0 /\ (IsDigit(s[1]) \/ s[1] = ".")
    THEN <<s[1]>> \o AmountText(Tail(s))
    ELSE <<>>

\* \s*\$\s*([\d.]+) matched against what follows the colon
MatchAmount(s) ==
    LET u == SkipSpaces(s)
        v == IF Len(u) > 0 THEN SkipSpaces(Tail(u)) ELSE <<>>
    IN  IF Len(u) > 0 /\ u[1] = "$" /\ Len(AmountText(v)) > 0
        THEN [matched |-> TRUE, amount |-> ParseFloat(AmountText(v))]
        ELSE [matched |-> FALSE, amount |-> Zero]

\* re.match(...) on one item: the type, the stripped label and the amount
MatchItem(item) ==
    LET name  == IF StartsWith(item, ConsignerName) THEN ConsignerName
                 ELSE IF StartsWith(item, InvestorName) THEN InvestorName
                 ELSE <<>>
        rest  == SubSeq(item, Len(name) + 1, Len(item))
        r1    == SkipSpaces(rest)
        \* the optional group: \s*-\s*([^:]+) reaches up to the first colon
        after == IF Len(r1) > 0 /\ r1[1] = "-" THEN Tail(r1) ELSE <<>>
        colons == {i \in 1..Len(after) : after[i] = ":"}
        colon == IF colons = {} THEN 0
                 ELSE CHOOSE i \in colons : \A j \in colons : i <= j
        group == Len(r1) > 0 /\ r1[1] = "-" /\ colon > 1
        with  == MatchAmount(SubSeq(after, colon + 1, Len(after)))
        \* the group left out: the colon follows the type at once
        plain == IF Len(rest) > 0 /\ rest[1] = ":"
                 THEN MatchAmount(Tail(rest))
                 ELSE [matched |-> FALSE, amount |-> Zero]
        none  == [matched |-> FALSE, comp_type |-> <<>>, label |-> <<>>,
                  amount |-> Zero]
    IN  IF name = <<>> THEN none
        ELSE IF group /\ with.matched
        THEN [matched |-> TRUE, comp_type |-> name,
              label |-> Strip(SubSeq(after, 1, colon - 1)), amount |-> with.amount]
        ELSE IF plain.matched
        THEN [matched |-> TRUE, comp_type |-> name, label |-> <<>>,
              amount |-> plain.amount]
        ELSE none

\* key = label if label else "Default"
KeyOf(label) == IF Len(label) > 0 THEN label ELSE DefaultKey

RECURSIVE SumOfKey(_, _, _)
\* what the loop adds up under one key of the dictionary of one type
SumOfKey(component_breakdown, name, key) ==
    IF Len(component_breakdown) = 0 THEN Zero
    ELSE LET m == MatchItem(Head(component_breakdown))
             rest == SumOfKey(Tail(component_breakdown), name, key)
         IN  IF m.matched /\ m.comp_type = name /\ KeyOf(m.label) = key
             THEN RAdd(m.amount, rest)
             ELSE rest

\* the dictionary of one type: a function from its keys to the sums
LabelsOf(component_breakdown, name) ==
    LET keys == {KeyOf(MatchItem(component_breakdown[i]).label) :
                    i \in {j \in 1..Len(component_breakdown) :
                             /\ MatchItem(component_breakdown[j]).matched
                             /\ MatchItem(component_breakdown[j]).comp_type = name}}
    IN  [key \in keys |-> SumOfKey(component_breakdown, name, key)]

\* lines 35-63: (consigners, investors)
parse_component_labels(component_breakdown) ==
    [consigners |-> LabelsOf(component_breakdown, ConsignerName),
     investors  |-> LabelsOf(component_breakdown, InvestorName)]

\* the call of calculate_order_breakdown for the last breakdown of the list
\* has returned, its locals are still in place
Emitted == Len(breakdowns) > 0 /\ pc \in {"call", "return"}

\* the amounts, rounded to 2 decimals, of the applied components of type t
\* and label l
RECURSIVE AppliedSum(_, _, _)
AppliedSum(details, t, l) ==
    IF Len(details) = 0 THEN Zero
    ELSE RAdd(IF Head(details).type = t /\ Head(details).label = l
              THEN Round2(Head(details).amount) ELSE Zero,
              AppliedSum(Tail(details), t, l))

(* C18: round trip with the downstream parser.  For every breakdown,       *)
(* parse_component_labels(component_breakdown) holds, for each applied     *)
(* investor (consigner) component of label L, under the key L ("Default"   *)
(* for the empty label) the sum of the 2-decimal amounts of the applied    *)
(* components of that type and label; none is dropped.                     *)
C18_RoundTrip ==
    Emitted =>
        LET parsed == parse_component_labels(
                          breakdowns[Len(breakdowns)].component_breakdown)
        IN  \A d \in 1..Len(component_details) :
                LET t == component_details[d].type
                    l == component_details[d].label
                    dict == IF t = InvestorT THEN parsed.investors
                            ELSE parsed.consigners
                IN  t \in {InvestorT, ConsignerT} =>
                        /\ KeyOf(l) \in DOMAIN dict
                        /\ dict[KeyOf(l)] = AppliedSum(component_details, t, l)

\* the title-cased names of the types
TitleCasedType(t) ==
    CASE t = InvestorT     -> <<"I","n","v","e","s","t","o","r">>
      [] t = ConsignerT    -> <<"C","o","n","s","i","g","n","e","r">>
      [] t = VendorT       -> <<"V","e","n","d","o","r">>
      [] t = BonusT        -> <<"B","o","n","u","s">>
      [] t = StateTaxesT   -> <<"S","t","a","t","e"," ","T","a","x","e","s">>
      [] t = FederalTaxesT -> <<"F","e","d","e","r","a","l"," ","T","a","x","e","s">>

\* "<name>[ - <label>]: $<amount with 2 decimals>"
LineOf(name, label, amount) ==
    name \o (IF label # <<>> THEN <<" ","-"," ">> \o label ELSE <<>>)
         \o <<":"," ","$">> \o Format2f(amount)

\* the components of a rule that deduct: neither tax components nor revenue
Deducting(rl) ==
    SelectSeq(rl.components,
              LAMBDA c : TypeOf(c) \notin TaxTypes \cup {RevenueT})

\* a tax line without rate_percentage and rate on an order without total
SkippedTaxLine(order, tax_line) ==
    /\ ~Truthy(tax_line.rate_percentage)
    /\ ~Truthy(tax_line.rate)
    /\ ~RLt(Zero, ToFloat(order.total_price))

\* the type under which the tax line at position i (from 1) is recorded
TaxTypeAt(i) == IF i = 2 THEN FederalTaxesT ELSE StateTaxesT

\* the name the claim gives to the tax line at position i: the title-cased
\* type
TypeName(i, tax_line) == TitleCasedType(TaxTypeAt(i))

\* the name the code gives: from the third tax line on, the title
PositionName(i, tax_line) ==
    IF i <= 2 THEN TitleCasedType(TaxTypeAt(i))
    ELSE <<"A","d","d","i","t","i","o","n","a","l"," ","T","a","x"," ","(">>
         \o tax_line.title \o <<")">>

RECURSIVE TaxNames(_, _, _)
\* the names of the deductions of the tax lines from position i on, those
\* skipped left out, by type or by position
TaxNames(order, i, by_type) ==
    IF i > Len(order.tax_lines) THEN <<>>
    ELSE (IF SkippedTaxLine(order, order.tax_lines[i]) THEN <<>>
          ELSE IF by_type THEN <<TypeName(i, order.tax_lines[i])>>
          ELSE <<PositionName(i, order.tax_lines[i])>>)
         \o TaxNames(order, i + 1, by_type)

\* the lines expected for the last breakdown: one per deducting component
\* in ascending order, then one per tax line not skipped if the tax pass ran
ExpectedLines(by_type) ==
    LET order == orders[Len(breakdowns)]
        app   == InAscendingOrder(Deducting(rules[rule_applied]))
        names == IF ti = 0 THEN <<>> ELSE TaxNames(order, 1, by_type)
    IN  [k \in 1..(Len(app) + Len(names)) |->
            IF k <= Len(app)
            THEN LineOf(TitleCasedType(TypeOf(app[k])), Strip(app[k].label),
                        component_details[k].amount)
            ELSE LineOf(names[k - Len(app)], <<>>, component_details[k].amount)]

\* the lines of the last breakdown
LastLines == breakdowns[Len(breakdowns)].component_breakdown

(* C19 as claimed: component_breakdown holds exactly one string per        *)
(* deduction applied, in application order (the components in ascending    *)
(* order, then the tax lines not skipped in input order), each of the form *)
(* "<Title-Cased type>[ - <label>]: $<amount with 2 decimals>"; it is      *)
(* empty when no rule matched.                                             *)
C19_Original ==
    Emitted =>
        IF rule_applied = 0 THEN LastLines = <<>>
        ELSE /\ Len(LastLines) = Len(component_details)
             /\ LastLines = ExpectedLines(TRUE)

(* C19 as amended: the same, where the string of a tax line is "State      *)
(* Taxes: $..." for the first tax line of the order, "Federal Taxes: $..." *)
(* for the second and "Additional Tax (<title>): $..." for every later     *)
(* one.                                                                    *)
C19_Lines ==
    Emitted =>
        IF rule_applied = 0 THEN LastLines = <<>>
        ELSE /\ Len(LastLines) = Len(component_details)
             /\ LastLines = ExpectedLines(FALSE)

\* a labelled component and three tax lines have been applied
C19_Witness ==
    /\ Emitted /\ rule_applied # 0
    /\ Len(LastLines) = 5
    /\ \E k \in 1..2 : component_details[k].label # <<>>
    /\ component_details[1].type # component_details[2].type
    /\ LastLines = ExpectedLines(FALSE)

(* C20: determinism.  Two calls of calculate_order_breakdown on the same   *)
(* order with the same rule list yield the same breakdown in every field,  *)
(* the order of component_breakdown included, whatever was calculated on   *)
(* the same RuleEngine before.                                             *)
C20_Deterministic ==
    \A i, j \in 1..Len(breakdowns) :
        orders[i] = orders[j] => breakdowns[i] = breakdowns[j]

\* the same order has been calculated twice, with a rule of two components
\* applied and tax lines deducted
C20_Witness ==
    /\ Len(breakdowns) = 2
    /\ orders[1] = orders[2]
    /\ Len(breakdowns[2].component_breakdown) >= 4
    /\ breakdowns[1] = breakdowns[2]

\* a step that starts the calculation of an order
StartStep == pc = "call" /\ pc' \in {"match", "branch"}

\* a step that returns the breakdown of an order to process_orders
EmitStep == pc = "emit" /\ pc' \in {"call", "return"}

\* after the step the locals of the call hold nothing but what the order and
\* the base_amount argument give
FreshLocals(order) ==
    /\ base' = BaseOf(order, base_arg)
    /\ remaining_amount' = base'
    /\ total_cost' = ToFloat(Get(order.total_cost, Num(0)))
    /\ totals' = ZeroTotals
    /\ matched_rules' = <<>>
    /\ component_details' = <<>>
    /\ rule_applied' = 0

FieldHit(rl, line_item) ==
    \E k \in 1..Len(rl.keywords) :
        \E f \in 1..Len(Fields(line_item)) :
            CIContains(Fields(line_item)[f], rl.keywords[k])

(* C22: find_matching_rule returns a rule only if one of its keywords is   *)
(* contained, case ignored, in at least one individual searchable field of *)
(* the line item: its title/name, its vendor, its product type, one of its *)
(* tags or one of its collections.                                         *)
C22_FieldMatch ==
    (InCall /\ li >= 1 /\ rule # 0) =>
        FieldHit(rules[rule], CurOrder.line_items[li])

\* what remained of the base after the allocation pass, from the recorded
\* allocation deductions
PreTaxRemaining ==
    RSub(base, SumAmounts(SelectSeq(component_details,
                                    LAMBDA d : d.type \notin TaxTypes)))

\* the condition of the tax pass for the current order
TaxPassDue ==
    RLt(Zero, PreTaxRemaining) /\ Len(TaxLinesOf(CurOrder)) > 0

(* C23: tax pass gate.  The loop over the tax lines is entered only at the *)
(* end of the allocation pass and only if remaining > 0 and the order has  *)
(* at least one tax line; tax totals and tax entries change only inside    *)
(* that loop (or are reset at the start of a call); when the condition     *)
(* does not hold the breakdown has state_taxes = federal_taxes = 0 and no  *)
(* tax entry in component_breakdown.                                       *)
C23_TaxGate ==
    [][/\ (pc # "tax" /\ pc' = "tax") =>
              /\ AllocEnded
              /\ remaining_amount = PreTaxRemaining
              /\ TaxPassDue
       /\ (\/ totals'.state_taxes # totals.state_taxes
           \/ totals'.federal_taxes # totals.federal_taxes
           \/ TaxDetails' # TaxDetails) => (pc = "tax" \/ StartStep)
       /\ (EmitStep /\ ~TaxPassDue) =>
              /\ breakdowns'[Len(breakdowns')].state_taxes = Zero
              /\ breakdowns'[Len(breakdowns')].federal_taxes = Zero
              /\ TaxDetails = <<>>
              /\ Len(breakdowns'[Len(breakdowns')].component_breakdown)
                     = Len(AllocDetails)]_vars

\* an order with tax lines whose rule left nothing for the tax pass has
\* been calculated
C23_Witness ==
    /\ pc = "emit"
    /\ rule_applied # 0
    /\ Len(TaxLinesOf(CurOrder)) > 0
    /\ RLt(Zero, base)
    /\ RLe(PreTaxRemaining, Zero)
    /\ Len(AllocDetails) > 0
    /\ totals.state_taxes = Zero

----------------------------------------------------------------------------
(* Tax inputs: tax lines as transform_order of src/shopify_client.py makes *)
(* them from the tax lines of a fetched order, and tax lines handed to the *)
(* engine directly, in lists of up to MaxTaxLines + 1.                     *)

\* a float given as a fraction
NumR(n, d) == [t |-> "num", s |-> <<>>, v |-> Norm(n, d)]

\* str(x) of a float with at most three decimals: "8.0", "0.05", "0.125"
FloatRepr(x) ==
    LET sign   == IF x[1] < 0 THEN <<"-">> ELSE <<>>
        thou   == (Abs(x[1]) * 1000) \div x[2]
        d1     == (thou % 1000) \div 100
        d2     == (thou % 100) \div 10
        d3     == thou % 10
        digits == IF d3 # 0 THEN <<DigitChar(d1), DigitChar(d2), DigitChar(d3)>>
                  ELSE IF d2 # 0 THEN <<DigitChar(d1), DigitChar(d2)>>
                  ELSE <<DigitChar(d1)>>
    IN  sign \o NatText(thou \div 1000) \o <<".">> \o digits

\* str(x) of a value read from the JSON of the store
PyStr(x) == IF x.t = "str" THEN x.s ELSE FloatRepr(x.v)

\* a tax line of a fetched order: title, priceSet.shopMoney.amount, rate,
\* ratePercentage (None when the key is absent)
SourceTaxLine(title, amount, rate, ratePercentage) ==
    [title |-> title, amount |-> amount, rate |-> rate,
     ratePercentage |-> ratePercentage]

\* shopify_client.py lines 162-182: the tax line transform_order builds
TransformTaxLine(tax_line) ==
    LET tax_rate == Get(tax_line.rate, Num(0))
        tax_rate_percentage == Get(tax_line.ratePercentage, Num(0))
    IN  TaxLine(tax_line.title,
                tax_line.amount,
                IF Truthy(tax_rate) THEN Str(PyStr(tax_rate))
                ELSE Str(<<"0">>),
                IF Truthy(tax_rate_percentage)
                THEN Str(PyStr(tax_rate_percentage)) ELSE Str(<<>>))

SourceTaxLines ==
    {SourceTaxLine(<<"C","A">>, Str(<<"2","2",".","0","0">>), NumR(1, 10), Num(10)),
     SourceTaxLine(<<"U","S">>, Str(<<"1","1",".","0","0">>), NumR(1, 20), None),
     SourceTaxLine(<<"V","A","T">>, Str(<<"2","2",".","0","0">>), None, None)}

\* source tax lines that carry neither rate nor ratePercentage
RatelessSources ==
    {s \in SourceTaxLines : s.rate = None /\ s.ratePercentage = None}

DirectTaxLines ==
    {TaxLine(<<"G","S","T">>, Str(<<"2","2",".","0","0">>), None, None),
     TaxLine(<<"P","S","T">>, Str(<<"1","1",".","0","0">>), NumR(1, 20), None),
     TaxLine(<<"H","S","T">>, Str(<<"2","2",".","0","0">>),
             Str(<<"0",".","5">>), Str(<<"8">>))}

TaxInputs == {TransformTaxLine(s) : s \in SourceTaxLines} \cup DirectTaxLines

TaxComps ==
    {Comp(InvestorT,  "flat",       Num(20), Num(1)),
     Comp(ConsignerT, "percentage", Num(50), Num(1))}

InitTax ==
    /\ rules \in {CalcRule(<<c>>) : c \in TaxComps}
    /\ orders \in {<<CalcOrder(it, tp, None, tl)>> :
                      it \in CalcItems,
                      tp \in CalcTotals,
                      tl \in SeqUpTo(TaxInputs, MaxTaxLines + 1)}
    /\ base_arg = "subtotal"
    /\ InitLocals
    /\ NoWeb

SpecTax == InitTax /\ [][Next]_vars

----------------------------------------------------------------------------
(* Properties of the tax pass                                              *)

\* a step of the loop over the tax lines
TaxStep == pc = "tax" /\ ti' = ti + 1

\* the tax line that a step of the loop handles
CurTaxLine == TaxLinesOf(CurOrder)[ti + 1]

\* a rate field is present: it holds a non-empty text or a non-zero number
HasRate(x) == x.t # "none" /\ (IF x.t = "str" THEN x.s # <<>> ELSE x.v # Zero)

\* the step has deducted amount from remaining and recorded it as one entry
Deducted(amount) ==
    /\ remaining_amount' = RSub(remaining_amount, amount)
    /\ Len(component_details') = Len(component_details) + 1
    /\ component_details'[Len(component_details')].amount = amount
    /\ component_details'[Len(component_details')].type \in TaxTypes

(* C24: tax rate selection, per tax line in input order.  With "present"   *)
(* read as holding a non-empty text or a non-zero number: if               *)
(* rate_percentage is                                                      *)
(* present the tax amount is remaining x rate_percentage / 100; else if    *)
(* rate is present it is remaining x rate; else if the order's total_price *)
(* is positive it is remaining x (amount / total_price); else the line is  *)
(* skipped, nothing deducted and nothing recorded.  Each amount is taken   *)
(* off remaining before the next tax line is evaluated.                    *)
C24_RateSelection ==
    [][TaxStep =>
          LET tax_line == CurTaxLine
              total    == ToFloat(CurOrder.total_price)
          IN  IF HasRate(tax_line.rate_percentage)
              THEN Deducted(RDiv(RMul(remaining_amount,
                                      ToFloat(tax_line.rate_percentage)),
                                 Hundred))
              ELSE IF HasRate(tax_line.rate)
              THEN Deducted(RMul(remaining_amount, ToFloat(tax_line.rate)))
              ELSE IF RLt(Zero, total)
              THEN Deducted(RDiv(RMul(remaining_amount,
                                      ToFloat(tax_line.amount)), total))
              ELSE UNCHANGED <<remaining_amount, component_details, totals>>
      ]_vars

\* an order with a rate-only tax line, then one with both rates, then one
\* with neither has been through the tax pass, each line on what the
\* previous one left
C24_Witness ==
    /\ pc = "residual"
    /\ Len(TaxLinesOf(CurOrder)) = 3
    /\ ~HasRate(TaxLinesOf(CurOrder)[1].rate_percentage)
    /\ HasRate(TaxLinesOf(CurOrder)[1].rate)
    /\ HasRate(TaxLinesOf(CurOrder)[2].rate_percentage)
    /\ HasRate(TaxLinesOf(CurOrder)[2].rate)
    /\ ToFloat(TaxLinesOf(CurOrder)[2].rate) # 
          RDiv(ToFloat(TaxLinesOf(CurOrder)[2].rate_percentage), Hundred)
    /\ ~HasRate(TaxLinesOf(CurOrder)[3].rate_percentage)
    /\ ~HasRate(TaxLinesOf(CurOrder)[3].rate)
    /\ Len(TaxDetails) = 3
    /\ RLt(Zero, TaxDetails[3].amount)
    /\ remaining_amount =
          RSub(PreTaxRemaining, SumAmounts(TaxDetails))

\* the tax amount of the step, as recorded
StepAmount == component_details'[Len(component_details')].amount

\* the step recorded one tax entry
Recorded == Len(component_details') = Len(component_details) + 1

(* C25: tax positional mapping.  The tax line at index 0 gives state_taxes *)
(* and the one at index 1 federal_taxes; every line at index >= 2 is added *)
(* into state_taxes and recorded under the display name "Additional Tax    *)
(* (<title>)"; no other total changes in the tax pass, and at its end      *)
(* state_taxes + federal_taxes is the sum of all tax amounts deducted.     *)
C25_Positional ==
    [][/\ (TaxStep /\ Recorded) =>
              LET detail == component_details'[Len(component_details')]
              IN  /\ totals'.investor = totals.investor
                  /\ totals'.consigner = totals.consigner
                  /\ totals'.vendor = totals.vendor
                  /\ DOMAIN totals' = DOMAIN ZeroTotals
                  /\ IF ti = 0
                     THEN /\ totals'.state_taxes = StepAmount
                          /\ totals'.federal_taxes = totals.federal_taxes
                          /\ detail.type = StateTaxesT
                          /\ detail.display_name = StateTaxesName
                     ELSE IF ti = 1
                     THEN /\ totals'.federal_taxes = StepAmount
                          /\ totals'.state_taxes = totals.state_taxes
                          /\ detail.type = FederalTaxesT
                          /\ detail.display_name = FederalTaxesName
                     ELSE /\ totals'.state_taxes =
                                 RAdd(totals.state_taxes, StepAmount)
                          /\ totals'.federal_taxes = totals.federal_taxes
                          /\ detail.type = StateTaxesT
                          /\ detail.display_name =
                                 <<"A","d","d","i","t","i","o","n","a","l"," ",
                                   "T","a","x"," ","(">> \o CurTaxLine.title
                                 \o <<")">>
       /\ pc = "residual" =>
              /\ RAdd(totals.state_taxes, totals.federal_taxes)
                     = SumAmounts(TaxDetails)
              /\ remaining_amount
                     = RSub(PreTaxRemaining, SumAmounts(TaxDetails))
      ]_vars

\* three tax lines with three different positive amounts have been
\* deducted: state_taxes holds the first and the third
C25_Witness ==
    /\ pc = "residual"
    /\ Len(TaxDetails) = 3
    /\ RLt(Zero, TaxDetails[1].amount)
    /\ RLt(Zero, TaxDetails[2].amount)
    /\ RLt(Zero, TaxDetails[3].amount)
    /\ TaxDetails[1].amount # TaxDetails[2].amount
    /\ totals.state_taxes = RAdd(TaxDetails[1].amount, TaxDetails[3].amount)
    /\ totals.federal_taxes = TaxDetails[2].amount
    /\ TaxDetails[3].display_name # StateTaxesName

\* the outcome of the missing-rate fallback for a tax line
FallbackOutcome(tax_line) ==
    LET total == ToFloat(CurOrder.total_price)
    IN  IF RLt(Zero, total)
        THEN Deducted(RDiv(RMul(remaining_amount, ToFloat(tax_line.amount)),
                           total))
        ELSE UNCHANGED <<remaining_amount, component_details, totals>>

(* C26: missing tax rate end to end.  A source tax line that has neither   *)
(* rate nor ratePercentage, once through transform_order and handed to     *)
(* calculate_order_breakdown with a matched rule and remaining > 0, is     *)
(* handled by the missing-rate fallback: tax_amount = remaining x amount / *)
(* total_price when total_price > 0, and the line is skipped when          *)
(* total_price is 0.                                                       *)
C26_MissingRate ==
    [][(/\ TaxStep
        /\ \E s \in RatelessSources : CurTaxLine = TransformTaxLine(s))
       => FallbackOutcome(CurTaxLine)]_vars

----------------------------------------------------------------------------
(* Conservation                                                            *)

\* remaining after the first j recorded deductions
RemainingAfter(j) ==
    RSub(base, SumAmounts(SubSeq(component_details, 1, j)))

\* remaining was never negative during the waterfall
NeverNegative ==
    \A j \in 0..Len(component_details) : RLe(Zero, RemainingAfter(j))

\* the sum of the six totals before rounding
SumOfTotals ==
    RAdd(RAdd(RAdd(totals.investor, totals.consigner),
              RAdd(totals.vendor, totals.state_taxes)),
         RAdd(totals.federal_taxes, totals.revenue))

(* C27: conservation.  For every order with a matched rule, if remaining   *)
(* never becomes negative during the waterfall, then investor + consigner  *)
(* + vendor + state_taxes + federal_taxes + revenue equals base_amount     *)
(* before rounding: every amount subtracted from remaining is credited to  *)
(* one of the emitted totals.                                              *)
C27_Conservation ==
    (pc = "emit" /\ rule_applied # 0 /\ NeverNegative) => SumOfTotals = base

----------------------------------------------------------------------------
(* Concurrent add_rule requests of one user.  Each request is served in    *)
(* its own thread with its own database session: it first queries the      *)
(* highest rule_id of the user (src/app.py lines 1344-1346), then          *)
(* validates, inserts and commits (lines 1348-1370).  Nothing orders the   *)
(* steps of two requests, and user_rules has no unique constraint on       *)
(* (user_id, rule_id) (src/models.py lines 84-95).                         *)

\* requests that have queried the highest rule_id and not yet committed
InFlight == {p \in 1..MaxClients : requests[p].stage = "queried"}

\* lines 1344-1346: client p's request reads the highest rule_id
add_rule_query(p, data) ==
    /\ pc = "idle"
    /\ requests[p].stage = "none"
    /\ Len(user_rules) + Cardinality(InFlight) < MaxRules
    /\ MaxStoredId + 1 <= MaxRuleId
    /\ requests' = [requests EXCEPT ![p] =
                       [stage |-> "queried", new_id |-> MaxStoredId + 1,
                        data |-> data]]
    /\ UNCHANGED <<user_rules, response, assigned_ids, fetch, rules, orders,
                   base_arg, breakdowns, pc, base, total_cost, li, rule,
                   rule_applied, matched_rules, components, ci,
                   remaining_amount, totals, component_details, ti>>

\* lines 1348-1377: client p's request validates, inserts and commits
add_rule_commit(p) ==
    /\ requests[p].stage = "queried"
    /\ LET data   == requests[p].data
           new_id == requests[p].new_id
       IN  IF ValidateComponents(data) # 0
           THEN /\ response' = Reply("add_rule", 0, data, ValidateComponents(data), FALSE)
                /\ UNCHANGED <<user_rules, assigned_ids>>
           ELSE IF MissingKey(data)
           THEN /\ response' = Reply("add_rule", 0, data, 400, FALSE)
                /\ UNCHANGED <<user_rules, assigned_ids>>
           ELSE /\ user_rules' = Append(user_rules, Row(new_id, data))
                /\ assigned_ids' = assigned_ids \cup {new_id}
                /\ response' = Reply("add_rule", 0, data, 200, TRUE)
    /\ requests' = [requests EXCEPT ![p] = NoRequest]
    /\ UNCHANGED <<fetch, rules, orders, base_arg, breakdowns, pc, base,
                   total_cost, li, rule, rule_applied, matched_rules,
                   components, ci, remaining_amount, totals,
                   component_details, ti>>

RaceBodies ==
    {Body(Desc("A"), Present(Keyword), Present(<<ValidComp>>)),
     Body(Desc("B"), Present(Keyword), Present(<<ValidComp>>)),
     Body(Desc("A"), Present(Keyword), Present(<<>>)),
     Body(NoDesc, Present(Keyword), Present(<<ValidComp>>))}

NextRace ==
    \/ \E p \in 1..MaxClients, data \in RaceBodies : add_rule_query(p, data)
    \/ \E p \in 1..MaxClients : add_rule_commit(p)
    \/ \E rule_id \in 1..MaxRuleId : delete_rule(rule_id)

SpecRace == InitApp /\ [][NextRace]_vars

(* C28: under any interleaving of two or more concurrent add_rule requests *)
(* of the same user (each reads the current maximum rule_id, then inserts  *)
(* and commits), no two stored rules of that user have the same rule_id.   *)
C28_UniqueIds ==
    \A j \in 1..Len(user_rules) : \A k \in 1..Len(user_rules) :
        j # k => user_rules[j].rule_id # user_rules[k].rule_id

----------------------------------------------------------------------------
(* fetch_orders of src/shopify_client.py: the pagination loop.             *)
(*                                                                         *)
(* fetch is the record of the locals of one call: status ("called",        *)
(* "running", "returned", "raised"), credentials (shop_domain and          *)
(* access_token are given), page_size, cursor (the number of the last      *)
(* order of the last page, 0 for None), has_next_page, use_cost_query,     *)
(* all_orders, data (the response handled last).  store is the number of   *)
(* orders the shop holds in the date range; restarts, switches and         *)
(* discarded are history: the restarts of the pagination, the switches to  *)
(* the query without cost, and whether a restart has dropped orders.       *)

MaxStoreOrders == 60    \* orders of the shop in the date range
MaxErrors == 2          \* entries of the "errors" list of a response

InitialPageSize == 50
MinPageSize == 10
DummyCount == 15

Max(a, b) == IF a >= b THEN a ELSE b
Min(a, b) == IF a <= b THEN a ELSE b

\* the kinds of entry of an "errors" list that the loop tells apart
MaxCostExceeded == "MAX_COST_EXCEEDED"
CostAccess == "unitCost"
OtherError == "other"
ErrorKinds == {MaxCostExceeded, CostAccess, OtherError}

\* a transformed order, with the query and the page size that fetched it
FetchedOrder(id, with_cost, first) ==
    [id |-> id, with_cost |-> with_cost, first |-> first]

\* the edges the shop returns for first = page_size, after = cursor
Page(f) ==
    [k \in 1..(Min(f.cursor + f.page_size, f.store) - f.cursor) |->
        FetchedOrder(f.cursor + k, f.use_cost_query, f.page_size)]

\* pageInfo.hasNextPage of that page
HasNextPage(f) == f.cursor + f.page_size < f.store

\* pageInfo.endCursor of that page (None for an empty page)
EndCursor(f) == IF Len(Page(f)) = 0 THEN 0 ELSE f.cursor + Len(Page(f))

\* generate_dummy_orders(start_date, end_date, count=15)
DummyOrders == [k \in 1..DummyCount |-> FetchedOrder(1000 + k - 1, TRUE, 0)]

\* the page size halved without a floor
Halved(page_size) == page_size \div 2

\* page_size = max(10, page_size // 2)
Reduced(page_size) == Max(MinPageSize, page_size \div 2)

\* the pagination restarted with the orders fetched so far kept
RestartedKeepOrders(f) ==
    [f EXCEPT !.cursor = 0, !.has_next_page = TRUE,
              !.restarts = @ + 1]

\* cursor = None; has_next_page = True; all_orders = []
Restarted(f) ==
    [f EXCEPT !.cursor = 0, !.has_next_page = TRUE, !.all_orders = <<>>,
              !.restarts = @ + 1,
              !.discarded = @ \/ Len(f.all_orders) > 0]

RECURSIVE ScanErrors(_, _)
\* the loop over data["errors"]: whether it broke out to retry with a
\* smaller page, collected an error message, saw a cost access error
ScanErrors(errors, page_size) ==
    IF Len(errors) = 0
    THEN [retry |-> FALSE, messages |-> FALSE, cost_access |-> FALSE]
    ELSE LET rest == ScanErrors(Tail(errors), page_size)
         IN  IF Head(errors) = MaxCostExceeded
             THEN IF page_size > MinPageSize
                  THEN [retry |-> TRUE, messages |-> FALSE, cost_access |-> FALSE]
                  ELSE [rest EXCEPT !.messages = TRUE]
             ELSE IF Head(errors) = CostAccess
             THEN [rest EXCEPT !.cost_access = TRUE]
             ELSE [rest EXCEPT !.messages = TRUE]

\* lines 222-427: the call returns dummy orders without credentials, or
\* sets up the loop
fetch_orders_begin ==
    /\ fetch.status = "called"
    /\ fetch' = IF ~fetch.credentials
                THEN [fetch EXCEPT !.status = "returned",
                                   !.all_orders = DummyOrders]
                ELSE [fetch EXCEPT !.status = "running",
                                   !.all_orders = <<>>,
                                   !.cursor = 0,
                                   !.has_next_page = TRUE,
                                   !.page_size = InitialPageSize,
                                   !.use_cost_query = TRUE]
    /\ UNCHANGED <<user_rules, response, assigned_ids, requests, rules,
                   orders, base_arg, breakdowns, pc, base, total_cost, li,
                   rule, rule_applied, matched_rules, components, ci,
                   remaining_amount, totals, component_details, ti>>

\* lines 443-460 and 567-570: the request fails, the status is not ok or
\* the body is no JSON
fetch_orders_http_error ==
    /\ fetch.status = "running"
    /\ fetch.has_next_page
    /\ fetch' = [fetch EXCEPT !.status = "raised",
                              !.data = [NoReply EXCEPT !.kind = "http_error"]]
    /\ UNCHANGED <<user_rules, response, assigned_ids, requests, rules,
                   orders, base_arg, breakdowns, pc, base, total_cost, li,
                   rule, rule_applied, matched_rules, components, ci,
                   remaining_amount, totals, component_details, ti>>

\* lines 429-565: one iteration of the loop on a JSON response, with or
\* without an "errors" list and with or without data.orders
fetch_orders_response(errors, has_data) ==
    /\ fetch.status = "running"
    /\ fetch.has_next_page
    /\ LET scan == ScanErrors(errors.list, fetch.page_size)
           got  == [fetch EXCEPT !.data = [kind |-> "json", errors |-> errors,
                                           has_data |-> has_data]]
       IN  fetch' =
             IF errors.has /\ scan.retry
             THEN Restarted([got EXCEPT !.page_size = Reduced(fetch.page_size)])
             ELSE IF errors.has /\ scan.messages
             THEN [got EXCEPT !.status = "raised"]
             ELSE IF errors.has /\ scan.cost_access /\ fetch.use_cost_query
             THEN Restarted([got EXCEPT !.use_cost_query = FALSE,
                                        !.switches = @ + 1])
             ELSE IF ~has_data
             THEN [got EXCEPT !.status = "raised"]
             ELSE [got EXCEPT !.all_orders = fetch.all_orders \o Page(fetch),
                              !.has_next_page = HasNextPage(fetch),
                              !.cursor = EndCursor(fetch)]
    /\ UNCHANGED <<user_rules, response, assigned_ids, requests, rules,
                   orders, base_arg, breakdowns, pc, base, total_cost, li,
                   rule, rule_applied, matched_rules, components, ci,
                   remaining_amount, totals, component_details, ti>>

\* lines 429 and 572: the loop ends, all_orders is returned
fetch_orders_return_all ==
    /\ fetch.status = "running"
    /\ ~fetch.has_next_page
    /\ fetch' = [fetch EXCEPT !.status = "returned"]
    /\ UNCHANGED <<user_rules, response, assigned_ids, requests, rules,
                   orders, base_arg, breakdowns, pc, base, total_cost, li,
                   rule, rule_applied, matched_rules, components, ci,
                   remaining_amount, totals, component_details, ti>>

\* the responses of the shop to one request
ErrorLists == {Absent} \cup {Present(l) : l \in SeqUpTo(ErrorKinds, MaxErrors)}

\* shops with no order, with a whole number of smallest pages, and with
\* MaxStoreOrders orders
StoreSizes ==
    {n \in 0..MaxStoreOrders : n % MinPageSize = 0 \/ n = MaxStoreOrders}

InitFetch ==
    /\ fetch \in {[NoFetch EXCEPT !.status = "called", !.store = n,
                                  !.credentials = c] :
                    n \in StoreSizes, c \in BOOLEAN}
    /\ user_rules = <<>>
    /\ response = NoResponse
    /\ assigned_ids = {}
    /\ requests = NoRequests
    /\ rules = <<>>
    /\ orders = <<>>
    /\ base_arg = "subtotal"
    /\ breakdowns = <<>>
    /\ pc = "idle"
    /\ base = Zero
    /\ total_cost = Zero
    /\ li = 0
    /\ rule = 0
    /\ rule_applied = 0
    /\ matched_rules = <<>>
    /\ components = <<>>
    /\ ci = 0
    /\ remaining_amount = Zero
    /\ totals = ZeroTotals
    /\ component_details = <<>>
    /\ ti = 0

NextFetch ==
    \/ fetch_orders_begin
    \/ fetch_orders_http_error
    \/ \E errors \in ErrorLists, has_data \in BOOLEAN :
           fetch_orders_response(errors, has_data)
    \/ fetch_orders_return_all

SpecFetch == InitFetch /\ [][NextFetch]_vars

\* the loop keeps running: a request is answered, or the call returns
SpecFetchLive == SpecFetch /\ WF_vars(NextFetch)

\* the step restarts the pagination: with a smaller page, or with the query
\* without cost data
RestartStep ==
    /\ fetch.status = "running"
    /\ fetch'.status = "running"
    /\ \/ fetch'.page_size # fetch.page_size
       \/ fetch'.use_cost_query # fetch.use_cost_query

\* the orders of the shop as one pass with the given query and page size
\* fetches them, page after page
OnePass(store, with_cost, first) ==
    [k \in 1..store |-> FetchedOrder(k, with_cost, first)]

(* C29: fetch_orders restart discipline.  Whenever pagination is restarted *)
(* (page size reduced after MAX_COST_EXCEEDED, or switch to the query      *)
(* without cost data) the cursor is reset and all orders accumulated so    *)
(* far are discarded; the list returned holds exactly the orders of the    *)
(* pages of the final pass, each once and in page order, and none from an  *)
(* abandoned pass.                                                         *)
C29_RestartDiscipline ==
    [][/\ RestartStep =>
              /\ fetch'.cursor = 0
              /\ fetch'.all_orders = <<>>
              /\ fetch'.has_next_page
       /\ (fetch.status = "running" /\ fetch'.status = "returned") =>
              fetch'.all_orders =
                  OnePass(fetch.store, fetch'.use_cost_query, fetch'.page_size)
      ]_vars

\* a call that dropped orders in restarts, by a smaller page and by the
\* switch of query, has returned more than one page
C29_Witness ==
    /\ fetch.status = "returned"
    /\ fetch.credentials
    /\ fetch.discarded
    /\ fetch.restarts >= 2
    /\ fetch.switches = 1
    /\ fetch.page_size < InitialPageSize
    /\ Len(fetch.all_orders) > fetch.page_size

\* the call has ended
FetchEnded == fetch.status \in {"returned", "raised"}

\* the response handled by the step carries a MAX_COST_EXCEEDED error
MaxCostReceived ==
    /\ fetch'.data.kind = "json"
    /\ fetch'.data.errors.has
    /\ \E i \in 1..Len(fetch'.data.errors.list) :
          fetch'.data.errors.list[i] = MaxCostExceeded

(* C30: fetch_orders bounded retries.  page_size starts at 50 and only     *)
(* ever decreases, by halving on MAX_COST_EXCEEDED (50, 25, 12, 10), never *)
(* below 10; a MAX_COST_EXCEEDED error at page size 10 raises instead of   *)
(* retrying; the switch to the query without cost happens at most once    *)
(* per call; a call restarts pagination at most 4 times and terminates     *)
(* (returns or raises).                                                    *)
C30_BoundedRetries ==
    /\ [][/\ (fetch.status = "called" /\ fetch'.status = "running") =>
                 fetch'.page_size = 50
          /\ fetch.status = "running" =>
                 /\ fetch'.page_size <= fetch.page_size
                 /\ fetch'.page_size \in {50, 25, 12, 10}
                 /\ fetch'.page_size < fetch.page_size =>
                        /\ MaxCostReceived
                        /\ fetch'.page_size = fetch.page_size \div 2
                           \/ fetch'.page_size = 10
                 /\ (fetch.page_size = 10 /\ MaxCostReceived) =>
                        fetch'.status = "raised"
                 /\ fetch'.use_cost_query => fetch.use_cost_query
                 /\ fetch'.switches <= 1
                 /\ fetch'.restarts <= 4
         ]_vars
    /\ <>FetchEnded

\* a call has gone down to page size 10 and switched query, four restarts
\* in all, and has then raised on MAX_COST_EXCEEDED
C30_Witness ==
    /\ fetch.status = "raised"
    /\ fetch.page_size = 10
    /\ fetch.restarts = 4
    /\ fetch.switches = 1
    /\ fetch.data.errors.has
    /\ \E i \in 1..Len(fetch.data.errors.list) :
          fetch.data.errors.list[i] = MaxCostExceeded

====
